---- MODULE Spec2Model ----
(***************************************************************************)
(* A model of the CAPTCHA solver: the configuration store (config.py), the *)
(* OCR recognizer (ocr.py), the solver orchestrator (solver.py), the       *)
(* preprocessor, the extractor, the form submitter, retry_operation        *)
(* (utils.py) and the command (cli.py).                                    *)
(*                                                                         *)
(* Python values are encoded as records of one shape so that any two of    *)
(* them can be compared: an int, a list of strings, a string or None.      *)
(* A dict is a function from its keys to values.  The nested section dicts *)
(* of Config.DEFAULT_CONFIG are objects shared by reference: the entry of  *)
(* a section in an instance's top-level dict either still points at the    *)
(* class-level section object ("shared"), or holds a dict of the           *)
(* instance's own ("own"), or a value that is no dict ("scalar").          *)
(***************************************************************************)
EXTENDS Integers, Sequences, FiniteSets, TLC

VARIABLES
    defaults,     \* Config.DEFAULT_CONFIG's section objects: section -> dict
    configs,      \* the Config instances built so far: Seq of top-level dicts
    cfgRet,       \* what the last configuration operation did
    valIn,        \* validate_config under test: the mapping it is given
    valOut,       \* validate_config under test: its outcome
    engine,       \* pytesseract.image_to_data: image -> configuration -> output
    ocr,          \* the OCRHandler: last_confidence, last_result, default_config
    ocrRet,       \* the last recognizer call and what it returned
    firstMulti,   \* what the first recognize_with_multiple_configs call returned
    solverCfg,    \* the CAPTCHASolver's configuration, references followed
    solver,       \* the CAPTCHASolver: last_result, last_confidence
    history,      \* CAPTCHASolver.processing_history
    clock,        \* time.time(), as the number of records made so far
    solveRet,     \* the last orchestrator call and what it returned
    batchRet,     \* the last solve_batch call and the list it returned
    prep,         \* the last ImagePreprocessor.preprocess call and its outcome
    ext,          \* the last CAPTCHAExtractor.extract_from_element call and its outcome
    sub,          \* the last FormSubmitter.submit_captcha call and its outcome
    wait,         \* FormSubmitter.wait_for_result: the page, the time and the loop's place
    retry,        \* retry_operation: the attempts, the waits and the loop's place
    cli,          \* the last run of the command (cli.main) and how the process ended
    resources     \* the browser driver and the HTTP session: acquired, released

configVars == <<defaults, configs, cfgRet>>
validateVars == <<valIn, valOut>>
ocrVars == <<engine, ocr, ocrRet, firstMulti>>
solverVars == <<solverCfg, solver, history, clock, solveRet, batchRet>>
toolVars == <<prep, ext, sub, wait, retry>>
runVars == <<cli, resources>>
vars == <<defaults, configs, cfgRet, valIn, valOut, engine, ocr, ocrRet, firstMulti,
          solverCfg, solver, history, clock, solveRet, batchRet, prep, ext, sub, wait, retry,
          cli, resources>>

(***************************************************************************)
(* Bounds of the model.                                                    *)
(***************************************************************************)
MaxConfigs == 2

(***************************************************************************)
(* Python values.                                                          *)
(***************************************************************************)
NoneV == [tag |-> "none", n |-> 0, l |-> <<>>]
IntV(n) == [tag |-> "int", n |-> n, l |-> <<>>]
ListV(s) == [tag |-> "list", n |-> 0, l |-> s]
StrV(s) == [tag |-> "str", n |-> 0, l |-> <<s>>]

EmptyDict == [k \in {} |-> NoneV]

\* A value found under a key of the top-level dict, once references are followed.
DictE(d) == [isDict |-> TRUE, d |-> d, v |-> NoneV]
ScalarE(v) == [isDict |-> FALSE, d |-> EmptyDict, v |-> v]

\* An entry of an instance's top-level dict.
Shared == [kind |-> "shared", d |-> EmptyDict, v |-> NoneV]
Own(d) == [kind |-> "own", d |-> d, v |-> NoneV]
Scalar(v) == [kind |-> "scalar", d |-> EmptyDict, v |-> v]

AsEntry(e) == IF e.isDict THEN Own(e.d) ELSE Scalar(e.v)

(***************************************************************************)
(* Config.DEFAULT_CONFIG, on the keys the model follows.                   *)
(***************************************************************************)
DefaultSteps == <<"grayscale", "denoise", "threshold", "morphology">>

DEFAULT_CONFIG ==
    ("tesseract" :> ("config" :> StrV("--psm 8 whitelist")))
 @@ ("preprocessing" :> ("steps" :> ListV(DefaultSteps)))
 @@ ("selenium" :> ("timeout" :> IntV(10)))
 @@ ("ocr" :> (("confidence_threshold" :> IntV(60)) @@ ("dpi" :> IntV(300))))
 @@ ("extraction" :> ("timeout" :> IntV(30)))

Sections == DOMAIN DEFAULT_CONFIG

required_sections == <<"tesseract", "preprocessing", "selenium", "ocr", "extraction">>

valid_steps == {"grayscale", "denoise", "threshold", "morphology", "skew_correction"}

\* The step names ImagePreprocessor.preprocess dispatches on.
RecognizedSteps ==
    {"grayscale", "denoise", "threshold", "morphology", "skew_correction", "enhance"}

(***************************************************************************)
(* The outcome of a call: it returns, or raises an exception.              *)
(***************************************************************************)
Ok == [exc |-> "none", why |-> "none"]
Pending == [exc |-> "pending", why |-> "pending"]
Raise(exc, why) == [exc |-> exc, why |-> why]

\* The top-level dict of an instance with its references followed.
Resolve(top, defs) ==
    [k \in DOMAIN top |->
        IF top[k].kind = "shared" THEN DictE(defs[k])
        ELSE IF top[k].kind = "own" THEN DictE(top[k].d)
        ELSE ScalarE(top[k].v)]

\* section[key] of Python: a TypeError on a non-dict, a KeyError on a missing key.
Subscript(e, key) ==
    IF ~e.isDict THEN Raise("TypeError", "subscript")
    ELSE IF key \notin DOMAIN e.d THEN Raise("KeyError", "missing_key")
    ELSE Ok

RECURSIVE FirstMissing(_, _)
FirstMissing(conf, i) ==
    IF i > Len(required_sections) THEN 0
    ELSE IF required_sections[i] \notin DOMAIN conf THEN i
    ELSE FirstMissing(conf, i + 1)

SeleniumCheck(conf) ==
    LET s == Subscript(conf["selenium"], "timeout") IN
    IF s # Ok THEN s
    ELSE LET t == conf["selenium"].d["timeout"] IN
         IF t.tag # "int" THEN Raise("TypeError", "compare")
         ELSE IF t.n <= 0 THEN Raise("ValueError", "selenium_timeout")
         ELSE Ok

ThresholdCheck_Strict(conf) ==
    LET s == Subscript(conf["ocr"], "confidence_threshold") IN
    IF s # Ok THEN s
    ELSE LET t == conf["ocr"].d["confidence_threshold"] IN
         IF t.tag # "int" THEN Raise("TypeError", "compare")
         ELSE IF ~(0 < t.n /\ t.n <= 100)
              THEN Raise("ValueError", "confidence_threshold")
         ELSE Ok

ThresholdCheck(conf) ==
    LET s == Subscript(conf["ocr"], "confidence_threshold") IN
    IF s # Ok THEN s
    ELSE LET t == conf["ocr"].d["confidence_threshold"] IN
         IF t.tag # "int" THEN Raise("TypeError", "compare")
         ELSE IF ~(0 <= t.n /\ t.n <= 100)
              THEN Raise("ValueError", "confidence_threshold")
         ELSE Ok

\* for step in preprocessing_config["steps"]: a non-iterable raises TypeError, and
\* a string is iterated character by character (no character is a step name).
StepsCheck(conf) ==
    LET s == Subscript(conf["preprocessing"], "steps") IN
    IF s # Ok THEN s
    ELSE LET t == conf["preprocessing"].d["steps"] IN
         IF t.tag \in {"int", "none"} THEN Raise("TypeError", "iterate")
         ELSE IF t.tag = "str" THEN Raise("ValueError", "invalid_step")
         ELSE IF \E i \in 1..Len(t.l) : t.l[i] \notin valid_steps
              THEN Raise("ValueError", "invalid_step")
         ELSE Ok

\* Config.validate_config, on the resolved mapping conf.
validate_config(conf) ==
    IF FirstMissing(conf, 1) # 0 THEN Raise("ValueError", "missing_section")
    ELSE IF SeleniumCheck(conf) # Ok THEN SeleniumCheck(conf)
    ELSE IF ThresholdCheck(conf) # Ok THEN ThresholdCheck(conf)
    ELSE StepsCheck(conf)

(***************************************************************************)
(* Config._deep_merge(self.config, file_config).  A section present in     *)
(* both as a dict is merged in place, which for a "shared" entry writes    *)
(* into the class-level section object; anything else is assigned.  The    *)
(* values below the sections are not dicts, so the nested call assigns.    *)
(***************************************************************************)
MergesInPlace(top, update, key) ==
    /\ key \in DOMAIN top
    /\ top[key].kind \in {"shared", "own"}
    /\ update[key].isDict

deep_merge(top, defs, update) ==
    [top |-> [k \in DOMAIN top \cup DOMAIN update |->
                 IF k \notin DOMAIN update THEN top[k]
                 ELSE IF MergesInPlace(top, update, k)
                      THEN IF top[k].kind = "shared" THEN Shared
                           ELSE Own(update[k].d @@ top[k].d)
                      ELSE AsEntry(update[k])],
     defs |-> [s \in DOMAIN defs |->
                 IF s \in DOMAIN update /\ MergesInPlace(top, update, s)
                    /\ top[s].kind = "shared"
                 THEN update[s].d @@ defs[s]
                 ELSE defs[s]]]

\* self.config = self.DEFAULT_CONFIG.copy(): a new top-level dict whose entries
\* are the class-level section objects themselves.
DefaultCopy == [s \in Sections |-> Shared]

(***************************************************************************)
(* Config.__init__(config_file): the copy, the merge of the file when one  *)
(* is given, then validate_config.  The result holds the top-level dict,   *)
(* the section objects as the call leaves them, and the outcome.           *)
(***************************************************************************)
NoFile == [given |-> FALSE, wellFormed |-> TRUE, content |-> [k \in {} |-> ScalarE(NoneV)]]
JsonFile(c) == [given |-> TRUE, wellFormed |-> TRUE, content |-> c]
BadJsonFile == [given |-> TRUE, wellFormed |-> FALSE, content |-> [k \in {} |-> ScalarE(NoneV)]]

Config_init(defs, file) ==
    IF file.given /\ ~file.wellFormed
    THEN [top |-> DefaultCopy, defs |-> defs, out |-> Raise("ValueError", "load")]
    ELSE LET m == IF file.given THEN deep_merge(DefaultCopy, defs, file.content)
                  ELSE [top |-> DefaultCopy, defs |-> defs]
         IN [top |-> m.top, defs |-> m.defs,
             out |-> validate_config(Resolve(m.top, m.defs))]

(***************************************************************************)
(* top[s][f] = value, as the CLI overrides write it.                       *)
(***************************************************************************)
SetItem2(top, defs, s, f, value) ==
    IF s \notin DOMAIN top
    THEN [top |-> top, defs |-> defs, out |-> Raise("KeyError", "missing_key")]
    ELSE IF top[s].kind = "scalar"
    THEN [top |-> top, defs |-> defs, out |-> Raise("TypeError", "item assignment")]
    ELSE IF top[s].kind = "shared"
    THEN [top |-> top, defs |-> [defs EXCEPT ![s] = (f :> value) @@ @], out |-> Ok]
    ELSE [top |-> [top EXCEPT ![s] = Own((f :> value) @@ @.d)], defs |-> defs, out |-> Ok]

(***************************************************************************)
(* Config.set(key, value) for a dotted key of one or two parts.            *)
(***************************************************************************)
Config_set(top, defs, path, value) ==
    IF Len(path) = 1
    THEN [top |-> (path[1] :> Scalar(value)) @@ top, defs |-> defs, out |-> Ok]
    ELSE IF path[1] \notin DOMAIN top
    THEN [top |-> (path[1] :> Own(path[2] :> value)) @@ top, defs |-> defs, out |-> Ok]
    ELSE SetItem2(top, defs, path[1], path[2], value)

(***************************************************************************)
(* load_config_from_args(args): Config(args.config) or Config(), then the  *)
(* overrides, each guarded by the truth value of its argument.             *)
(***************************************************************************)
Truthy(v) ==
    \/ v.tag = "int" /\ v.n # 0
    \/ v.tag = "list" /\ v.l # <<>>
    \/ v.tag = "str"

load_config_from_args(defs, args) ==
    LET c == Config_init(defs, args.config) IN
    IF c.out # Ok THEN c
    ELSE LET a == IF Truthy(args.tesseract_config)
                  THEN SetItem2(c.top, c.defs, "tesseract", "config", args.tesseract_config)
                  ELSE c
         IN IF a.out # Ok THEN a
            ELSE LET b == IF Truthy(args.confidence_threshold)
                          THEN SetItem2(a.top, a.defs, "ocr", "confidence_threshold",
                                        args.confidence_threshold)
                          ELSE a
                 IN IF b.out # Ok THEN b
                    ELSE IF Truthy(args.preprocessing_steps)
                         THEN SetItem2(b.top, b.defs, "preprocessing", "steps",
                                       args.preprocessing_steps)
                         ELSE b

(***************************************************************************)
(* CAPTCHASolver.__init__(config) for a dict: Config(), then               *)
(* self.config.config.update(config), with no validation after it.         *)
(***************************************************************************)
Solver_init_dict(defs, overlay) ==
    LET c == Config_init(defs, NoFile) IN
    IF c.out # Ok THEN c
    ELSE [top |-> [k \in DOMAIN c.top \cup DOMAIN overlay |->
                      IF k \in DOMAIN overlay THEN AsEntry(overlay[k]) ELSE c.top[k]],
          defs |-> c.defs, out |-> Ok]

(***************************************************************************)
(* The OCR recognizer (ocr.py).  A text is a sequence of characters; a     *)
(* confidence is a rational number num/den in lowest terms, as the mean    *)
(* that recognize_text computes need not be an integer.                    *)
(***************************************************************************)
RECURSIVE Gcd(_, _)
Gcd(a, b) == IF b = 0 THEN a ELSE Gcd(b, a % b)

Rat(n, d) == IF n = 0 THEN [num |-> 0, den |-> 1]
             ELSE [num |-> n \div Gcd(n, d), den |-> d \div Gcd(n, d)]

Zero == Rat(0, 1)

Greater(a, b) == a.num * b.den > b.num * a.den

Less(a, b) == a.num * b.den < b.num * a.den

RECURSIVE Sum(_)
Sum(q) == IF q = <<>> THEN 0 ELSE Head(q) + Sum(Tail(q))

RECURSIVE Join(_)
Join(parts) ==
    IF parts = <<>> THEN <<>>
    ELSE IF Len(parts) = 1 THEN parts[1]
    ELSE parts[1] \o <<" ">> \o Join(Tail(parts))

IsSpace(ch) == ch = " "

\* str.strip() leaves something: the text holds a character that is no whitespace.
StripsNonEmpty(text) == \E i \in 1..Len(text) : ~IsSpace(text[i])

RECURSIVE LStrip(_)
LStrip(text) ==
    IF text # <<>> /\ IsSpace(Head(text)) THEN LStrip(Tail(text)) ELSE text

RECURSIVE Collapse(_)
Collapse(text) ==
    IF text = <<>> THEN <<>>
    ELSE IF IsSpace(Head(text))
         THEN (IF LStrip(text) = <<>> THEN <<>> ELSE <<" ">> \o Collapse(LStrip(text)))
         ELSE <<Head(text)>> \o Collapse(Tail(text))

\* The artifact characters of clean_text, the backslash and the backquote left out.
Artifacts == {"|", "/", "_", "~"}

\* utils.clean_text: whitespace runs collapsed and stripped, then artifacts removed.
clean_text(text) ==
    IF text = <<>> THEN <<>>
    ELSE SelectSeq(Collapse(LStrip(text)), LAMBDA ch : ch \notin Artifacts)

\* OCRHandler._clean_ocr_result: clean_text, then every space removed (the
\* replacement table of the method is never applied).
clean_ocr_result(text) ==
    IF text = <<>> THEN <<>>
    ELSE SelectSeq(clean_text(text), LAMBDA ch : ch # " ")

(***************************************************************************)
(* The engine's answer to image_to_data: it raises, or gives rows of       *)
(* (text, conf).                                                           *)
(***************************************************************************)
Token(w, c) == [text |-> w, conf |-> c]
Rows(t) == [raises |-> FALSE, tokens |-> t]
EngineRaises == [raises |-> TRUE, tokens |-> <<>>]

configs_list ==
    << "--psm 8 whitelist", "--psm 7 whitelist", "--psm 6 whitelist",
       "--psm 8", "--psm 7", "--psm 13" >>

ConfigSet == { configs_list[i] : i \in 1..Len(configs_list) }

Images == {"img1", "img2"}

\* recognize_text(image, custom_config); "" stands for no custom configuration.
recognize_text(self, eng, image, custom_config) ==
    LET config == IF custom_config # "" THEN custom_config ELSE self.default_config
        data == eng[image][config]
        kept == SelectSeq(data.tokens, LAMBDA t : StripsNonEmpty(t.text))
        text_parts == [i \in 1..Len(kept) |-> kept[i].text]
        confidences == [i \in 1..Len(kept) |-> kept[i].conf]
        positive == SelectSeq(confidences, LAMBDA c : c > 0)
        cleaned == clean_ocr_result(Join(text_parts))
    IN IF data.raises
       THEN [self |-> [self EXCEPT !.last_confidence = Zero, !.last_result = <<>>],
             text |-> <<>>]
       ELSE [self |-> [self EXCEPT
                          !.last_confidence =
                              IF positive # <<>> THEN Rat(Sum(positive), Len(positive))
                              ELSE Zero,
                          !.last_result = cleaned],
             text |-> cleaned]

\* The loop of recognize_with_multiple_configs from configuration i on.
RECURSIVE TryConfigs(_, _, _, _, _)
TryConfigs(self, eng, image, i, best) ==
    IF i > Len(configs_list) THEN [self |-> self, best |-> best]
    ELSE LET r == recognize_text(self, eng, image, configs_list[i])
             confidence == r.self.last_confidence
         IN TryConfigs(r.self, eng, image, i + 1,
                       IF Greater(confidence, best.conf) /\ StripsNonEmpty(r.text)
                       THEN [text |-> r.text, conf |-> confidence]
                       ELSE best)

recognize_with_multiple_configs_Stale(self, eng, image) ==
    LET f == TryConfigs(self, eng, image, 1, [text |-> <<>>, conf |-> self.last_confidence])
    IN [self |-> [f.self EXCEPT !.last_result = f.best.text,
                                !.last_confidence = f.best.conf],
        text |-> f.best.text, conf |-> f.best.conf]

recognize_with_multiple_configs(self, eng, image) ==
    LET f == TryConfigs(self, eng, image, 1, [text |-> <<>>, conf |-> Zero])
    IN [self |-> [f.self EXCEPT !.last_result = f.best.text,
                                !.last_confidence = f.best.conf],
        text |-> f.best.text, conf |-> f.best.conf]

configure_tesseract(self, custom_config) == [self EXCEPT !.default_config = custom_config]

(***************************************************************************)
(* The recognizer's operations.  The engine is a function of (image,       *)
(* configuration) fixed for the whole behaviour.                           *)
(***************************************************************************)
EngineOutputs ==
    { Rows(<<Token(<<"A">>, 0)>>),
      Rows(<<Token(<<"A">>, 0), Token(<<"B", "|">>, 80)>>),
      Rows(<<Token(<<>>, -1), Token(<<"C">>, 80)>>) }

\* The second image's answer under a configuration is never the first image's.
OtherOutput(o) ==
    IF o = Rows(<<Token(<<"A">>, 0)>>) THEN Rows(<<Token(<<"|">>, 90)>>)
    ELSE IF o = Rows(<<Token(<<"A">>, 0), Token(<<"B", "|">>, 80)>>) THEN EngineRaises
    ELSE Rows(<<Token(<<"E">>, 0), Token(<<" ">>, 95), Token(<<"F">>, 30), Token(<<"G">>, 60)>>)

Engines ==
    { [im \in Images |-> [c \in ConfigSet |->
          IF im = "img1" THEN row[c] ELSE OtherOutput(row[c])]] :
      row \in [ConfigSet -> EngineOutputs] }

NewHandler ==
    [last_confidence |-> Zero, last_result |-> <<>>, default_config |-> configs_list[1]]

NoOcrCall == [op |-> "none", image |-> "none", config |-> "", text |-> <<>>,
              conf |-> Zero, repeat |-> FALSE]

NoMulti == [set |-> FALSE, image |-> "none", text |-> <<>>, conf |-> Zero]

OcrIdle ==
    /\ engine = [im \in Images |-> [c \in ConfigSet |-> EngineRaises]]
    /\ ocr = NewHandler
    /\ ocrRet = NoOcrCall
    /\ firstMulti = NoMulti

RecognizeText(image, custom_config) ==
    /\ LET r == recognize_text(ocr, engine, image, custom_config) IN
        /\ ocr' = r.self
        /\ ocrRet' = [op |-> "recognize_text", image |-> image,
                      config |-> IF custom_config # "" THEN custom_config
                                 ELSE ocr.default_config,
                      text |-> r.text, conf |-> r.self.last_confidence,
                      repeat |-> FALSE]
    /\ UNCHANGED <<engine, firstMulti, configVars, validateVars, solverVars, toolVars, runVars>>

RecognizeMulti(image) ==
    /\ LET r == recognize_with_multiple_configs(ocr, engine, image) IN
        /\ ocr' = r.self
        /\ ocrRet' = [op |-> "multi", image |-> image, config |-> "",
                      text |-> r.text, conf |-> r.conf,
                      repeat |-> firstMulti.set /\ firstMulti.image = image]
        /\ firstMulti' = IF firstMulti.set THEN firstMulti
                         ELSE [set |-> TRUE, image |-> image,
                               text |-> r.text, conf |-> r.conf]
    /\ UNCHANGED <<engine, configVars, validateVars, solverVars, toolVars, runVars>>

ConfigureTesseract(custom_config) ==
    /\ ocr' = configure_tesseract(ocr, custom_config)
    /\ UNCHANGED <<engine, ocrRet, firstMulti, configVars, validateVars, solverVars, toolVars, runVars>>


(***************************************************************************)
(* The solver orchestrator (solver.py).                                    *)
(***************************************************************************)
MaxRecords == 2

MaxAttempts == 102

MaxBatch == 2

MaxSteps == 3

MaxTimeout == 2

MaxTries == 4
\* The lines of the Hough transform in one image.
MaxLines == 3

HistoryLimit == 100

\* Config.get(key, default) for a dotted key of one or two parts: the default on
\* a KeyError or a TypeError along the path.
Config_get(conf, path, default) ==
    IF path[1] \notin DOMAIN conf THEN default
    ELSE IF Len(path) = 1 THEN conf[path[1]]
    ELSE IF Subscript(conf[path[1]], path[2]) # Ok THEN default
    ELSE ScalarE(conf[path[1]].d[path[2]])

_validate_result_Length(conf, result, confidence) ==
    LET min_confidence == Config_get(conf, <<"ocr", "confidence_threshold">>,
                                     ScalarE(IntV(60)))
    IN IF min_confidence.isDict \/ min_confidence.v.tag # "int"
       THEN [out |-> Raise("TypeError", "compare"), valid |-> FALSE]
       ELSE IF Less(confidence, Rat(min_confidence.v.n, 1))
       THEN [out |-> Ok, valid |-> FALSE]
       ELSE IF result = <<>> \/ ~StripsNonEmpty(result)
       THEN [out |-> Ok, valid |-> FALSE]
       ELSE [out |-> Ok, valid |-> ~(Len(result) < 3 \/ Len(result) > 10)]

\* CAPTCHASolver._validate_result: the length test only logs a warning.
_validate_result(conf, result, confidence) ==
    LET min_confidence == Config_get(conf, <<"ocr", "confidence_threshold">>,
                                     ScalarE(IntV(60)))
    IN IF min_confidence.isDict \/ min_confidence.v.tag # "int"
       THEN [out |-> Raise("TypeError", "compare"), valid |-> FALSE]
       ELSE IF Less(confidence, Rat(min_confidence.v.n, 1))
       THEN [out |-> Ok, valid |-> FALSE]
       ELSE IF result = <<>> \/ ~StripsNonEmpty(result)
       THEN [out |-> Ok, valid |-> FALSE]
       ELSE [out |-> Ok, valid |-> TRUE]

_record_processing_KeepFirst(hist, now, source, result, confidence) ==
    LET h == Append(hist, [timestamp |-> now, source |-> source, result |-> result,
                           confidence |-> confidence])
    IN IF Len(h) > HistoryLimit THEN SubSeq(h, 1, HistoryLimit) ELSE h

\* CAPTCHASolver._record_processing: append, then keep the last HistoryLimit.
_record_processing(hist, now, source, result, confidence) ==
    LET h == Append(hist, [timestamp |-> now, source |-> source, result |-> result,
                           confidence |-> confidence])
    IN IF Len(h) > HistoryLimit THEN SubSeq(h, Len(h) - HistoryLimit + 1, Len(h)) ELSE h

(***************************************************************************)
(* The files a path may name, for validate_image_path and Image.open.      *)
(***************************************************************************)
Paths == {"img1.png", "./img1.png", "img2.png", "missing.png", "captchas", "notes.txt",
          "corrupt.png"}

\* str(Path(path)): the path without its leading "./".
Path_str(path) == IF path = "./img1.png" THEN "img1.png" ELSE path

Exists(path) == Path_str(path) # "missing.png"
IsFile(path) == Path_str(path) # "captchas"
HasImageSuffix(path) == Path_str(path) \in {"img1.png", "img2.png", "missing.png", "corrupt.png"}

validate_image_path(path) ==
    IF ~Exists(path) THEN Raise("FileNotFoundError", "not found")
    ELSE IF ~IsFile(path) THEN Raise("ValueError", "not a file")
    ELSE IF ~HasImageSuffix(path) THEN Raise("ValueError", "format")
    ELSE Ok

\* Image.open(path): the image of the file, or an exception on a file that is none.
Image_open(path) ==
    IF Path_str(path) = "img1.png" THEN [out |-> Ok, image |-> "img1"]
    ELSE IF Path_str(path) = "img2.png" THEN [out |-> Ok, image |-> "img2"]
    ELSE [out |-> Raise("UnidentifiedImageError", "open"), image |-> "none"]

\* What a solve call hands back: the state it leaves, whether an exception
\* escaped to the caller, the text, and the stage that failed.
Solved(st, raised, text, failed, valid) ==
    [solver |-> st.solver, ocr |-> st.ocr, history |-> st.history,
     raised |-> raised, text |-> text, failed |-> failed, valid |-> valid]

(***************************************************************************)
(* CAPTCHASolver._solve_image(image, source).  fault names the stage that  *)
(* the environment makes raise: the hash of the pixels, the preprocessing  *)
(* pipeline, or none.  The engine answers for the preprocessed image,      *)
(* which is a function of the image, the steps being fixed.                *)
(***************************************************************************)
_solve_image(st, conf, eng, now, image, source, fault) ==
    IF fault = "hash" THEN Solved(st, FALSE, <<>>, "hash", FALSE)
    ELSE IF fault = "preprocess" THEN Solved(st, FALSE, <<>>, "preprocess", FALSE)
    ELSE LET r == recognize_with_multiple_configs(st.ocr, eng, image)
             recorded == [solver |-> [last_result |-> r.text, last_confidence |-> r.conf],
                          ocr |-> r.self,
                          history |-> _record_processing(st.history, now, source, r.text, r.conf)]
             v == _validate_result(conf, r.text, r.conf)
         IN IF v.out # Ok THEN Solved(recorded, FALSE, <<>>, "validate", FALSE)
            ELSE Solved(recorded, FALSE, r.text, "none", v.valid)

solve_from_file_Unguarded(st, conf, eng, now, image_path, fault) ==
    IF validate_image_path(image_path) # Ok THEN Solved(st, TRUE, <<>>, "input", FALSE)
    ELSE IF Image_open(image_path).out # Ok THEN Solved(st, FALSE, <<>>, "open", FALSE)
    ELSE _solve_image(st, conf, eng, now, Image_open(image_path).image,
                      Path_str(image_path), fault)

\* CAPTCHASolver.solve_from_file: every exception ends in the except clause.
solve_from_file(st, conf, eng, now, image_path, fault) ==
    IF validate_image_path(image_path) # Ok THEN Solved(st, FALSE, <<>>, "input", FALSE)
    ELSE IF Image_open(image_path).out # Ok THEN Solved(st, FALSE, <<>>, "open", FALSE)
    ELSE _solve_image(st, conf, eng, now, Image_open(image_path).image,
                      Path_str(image_path), fault)

\* CAPTCHASolver.solve_from_url: extracted is what extract_from_url gave, an
\* image, "None", or "raises" for an exception out of it.
solve_from_url(st, conf, eng, now, url, extracted, fault) ==
    IF extracted = "raises" THEN Solved(st, FALSE, <<>>, "extraction raised", FALSE)
    ELSE IF extracted = "None" THEN Solved(st, FALSE, <<>>, "no image", FALSE)
    ELSE _solve_image(st, conf, eng, now, extracted, url, fault)

\* CAPTCHASolver.solve_from_element: driver is "None", a live driver's URL, or
\* "dead" for a driver whose current_url raises.
solve_from_element(st, conf, eng, now, extracted, driver, fault) ==
    IF extracted = "None" THEN Solved(st, FALSE, <<>>, "no image", FALSE)
    ELSE IF driver = "dead" THEN Solved(st, FALSE, <<>>, "driver", FALSE)
    ELSE _solve_image(st, conf, eng, now, extracted,
                      IF driver = "None" THEN "WebElement" ELSE driver, fault)

(***************************************************************************)
(* The orchestrator's operations.                                          *)
(***************************************************************************)
BaseConf == [s \in Sections |-> DictE(DEFAULT_CONFIG[s])]

SolverConfigs ==
    { BaseConf,
      [BaseConf EXCEPT !["ocr"] = DictE("confidence_threshold" :> IntV(0))],
      [BaseConf EXCEPT !["ocr"] = DictE("dpi" :> IntV(150))],
      [BaseConf EXCEPT !["ocr"] = DictE("confidence_threshold" :> StrV("high"))] }

\* Engines that answer alike under every configuration.
SolverEngines ==
    { [im \in Images |-> [c \in ConfigSet |->
          IF im = "img1" THEN o ELSE OtherOutput(o)]] : o \in EngineOutputs }

Faults == {"none", "hash", "preprocess"}

NewSolver == [last_result |-> <<>>, last_confidence |-> Zero]

NoBatch == [called |-> FALSE, raised |-> FALSE, image_paths |-> <<>>, results |-> <<>>,
            appended |-> 0]

NoSolve == [op |-> "none", source |-> "none", raised |-> FALSE, text |-> <<>>,
            conf |-> Zero, failed |-> "none", valid |-> FALSE, appended |-> 0]

SolverIdle ==
    /\ solverCfg = BaseConf
    /\ solver = NewSolver
    /\ history = <<>>
    /\ clock = 0
    /\ solveRet = NoSolve
    /\ batchRet = NoBatch

SolverState == [solver |-> solver, ocr |-> ocr, history |-> history]

Returned(op, source, res) ==
    \E r \in {res} :
    /\ solver' = r.solver
    /\ ocr' = r.ocr
    /\ history' = r.history
    /\ clock' = IF r.failed \in {"none", "validate"} THEN clock + 1 ELSE clock
    /\ solveRet' = [op |-> op, source |-> source, raised |-> r.raised, text |-> r.text,
                    conf |-> Zero, failed |-> r.failed, valid |-> r.valid,
                    appended |-> IF r.history = history THEN 0 ELSE 1]
    /\ UNCHANGED <<solverCfg, batchRet, engine, ocrRet, firstMulti, configVars, validateVars,
                   toolVars, runVars>>

SolveFromFile(image_path, fault) ==
    Returned("solve_from_file", image_path,
             solve_from_file(SolverState, solverCfg, engine, clock + 1, image_path, fault))

SolveFromUrl(extracted, fault) ==
    Returned("solve_from_url", "http://site/login",
             solve_from_url(SolverState, solverCfg, engine, clock + 1, "http://site/login",
                            extracted, fault))

SolveFromElement(extracted, driver, fault) ==
    Returned("solve_from_element", driver,
             solve_from_element(SolverState, solverCfg, engine, clock + 1, extracted, driver,
                                fault))

(***************************************************************************)
(* CAPTCHASolver.solve_batch.  An entry of the result list: "error" is     *)
(* FALSE where the dictionary has no such key.  failed is not a key of the *)
(* dictionary: it keeps the stage at which the entry's solve failed.       *)
(***************************************************************************)
Entry(path, r, confidence) ==
    IF r.raised
    THEN [path |-> path, result |-> <<>>, confidence |-> Zero, success |-> FALSE,
          error |-> TRUE, failed |-> r.failed]
    ELSE [path |-> path, result |-> r.text, confidence |-> confidence,
          success |-> StripsNonEmpty(r.text), error |-> FALSE, failed |-> r.failed]

\* The loop of solve_batch from the i-th path on.
RECURSIVE BatchLoop(_, _, _, _, _, _, _, _)
BatchLoop(st, conf, eng, now, image_paths, faults, i, results) ==
    IF i > Len(image_paths) THEN [st |-> st, results |-> results, raised |-> FALSE]
    ELSE CHOOSE done \in
            { BatchLoop([solver |-> r.solver, ocr |-> r.ocr, history |-> r.history],
                        conf, eng, IF r.failed \in {"none", "validate"} THEN now + 1 ELSE now,
                        image_paths, faults, i + 1,
                        Append(results, Entry(image_paths[i], r, r.solver.last_confidence))) :
              r \in {solve_from_file(st, conf, eng, now + 1, image_paths[i], faults[i])} } :
            TRUE

\* The paths up to and with the first one that is no readable image.
RECURSIVE UpToFailure(_)
UpToFailure(image_paths) ==
    IF image_paths = <<>> THEN <<>>
    ELSE IF validate_image_path(Head(image_paths)) # Ok
            \/ Image_open(Head(image_paths)).out # Ok
         THEN <<Head(image_paths)>>
         ELSE <<Head(image_paths)>> \o UpToFailure(Tail(image_paths))

solve_batch_StopAtFailure(st, conf, eng, now, image_paths, faults) ==
    BatchLoop(st, conf, eng, now, UpToFailure(image_paths), faults, 1, <<>>)

solve_batch(st, conf, eng, now, image_paths, faults) ==
    BatchLoop(st, conf, eng, now, image_paths, faults, 1, <<>>)

BatchPaths == {"img1.png", "img2.png", "missing.png", "corrupt.png"}

BatchFaults == {"none", "preprocess"}

BatchInputs ==
    UNION { [1..n -> BatchPaths \X BatchFaults] : n \in 0..MaxBatch }

SolveBatch(in) ==
    /\ \E image_paths \in {[i \in 1..Len(in) |-> in[i][1]]} :
       \E r \in {solve_batch(SolverState, solverCfg, engine, clock, image_paths,
                             [i \in 1..Len(in) |-> in[i][2]])} :
          /\ solver' = r.st.solver
          /\ ocr' = r.st.ocr
          /\ history' = r.st.history
          /\ clock' = clock + Cardinality({ i \in 1..Len(r.results) :
                                             r.results[i].failed \in {"none", "validate"} })
          /\ batchRet' = [called |-> TRUE, raised |-> r.raised, image_paths |-> image_paths,
                          results |-> r.results,
                          appended |-> Len(r.st.history) - Len(history)]
    /\ UNCHANGED <<solverCfg, solveRet, engine, ocrRet, firstMulti, configVars, validateVars,
                   toolVars, runVars>>

\* _validate_result applied to a result of the caller's choosing.
ResultTexts ==
    { <<>>, <<" ">>, <<" ", "A">>, <<"A", "B">>, <<"A", "B", "C", "D">>,
      <<"A", "B", "C", "D", "E", "F", "G", "H", "I", "J", "K">> }

ResultConfidences == { Zero, Rat(59, 1), Rat(119, 2), Rat(60, 1), Rat(100, 1) }

ValidateResult(result, confidence) ==
    /\ LET v == _validate_result(solverCfg, result, confidence) IN
        solveRet' = [op |-> "_validate_result", source |-> "none",
                     raised |-> v.out # Ok, text |-> result, conf |-> confidence,
                     failed |-> "none", valid |-> v.valid, appended |-> 0]
    /\ UNCHANGED <<solverCfg, solver, history, clock, batchRet, ocrVars, configVars, validateVars, toolVars, runVars>>

(***************************************************************************)
(* The preprocessor (preprocessor.py).  An image is its mode, whether the  *)
(* Hough transform finds it skewed by more than a degree, and the          *)
(* operations that made it from the original.                              *)
(***************************************************************************)
Img(mode, skewed, ops) == [mode |-> mode, skewed |-> skewed, ops |-> ops]

Done(image) == [out |-> Ok, image |-> image]

Failed(exc, why) == [out |-> Raise(exc, why), image |-> Img("none", FALSE, <<>>)]

convert_to_grayscale_KeepsMode(image) ==
    IF image.mode # "L"
    THEN Done(Img(image.mode, image.skewed, Append(image.ops, "grayscale")))
    ELSE Done(image)

\* The image itself when its mode is L, image.convert('L') otherwise.
convert_to_grayscale(image) ==
    IF image.mode # "L" THEN Done(Img("L", image.skewed, Append(image.ops, "grayscale")))
    ELSE Done(image)

denoise(image) == Done([image EXCEPT !.ops = Append(@, "denoise")])

\* cv2.adaptiveThreshold takes a single-channel array only.
apply_threshold(image) ==
    IF image.mode # "L" THEN Failed("cv2.error", "adaptiveThreshold")
    ELSE Done([image EXCEPT !.ops = Append(@, "threshold")])

morphological_operations(image) == Done([image EXCEPT !.ops = Append(@, "morphology")])

\* The rotation unpacks img_array.shape into (height, width): a ValueError on
\* an array with a channel axis.  The rotated image is taken as straight.
correct_skew(image) ==
    IF ~image.skewed THEN Done(image)
    ELSE IF image.mode # "L" THEN Failed("ValueError", "shape")
    ELSE Done(Img("L", FALSE, Append(image.ops, "skew_correction")))

enhance_image(image) == Done([image EXCEPT !.ops = Append(@, "enhance")])

\* One turn of preprocess's if/elif chain; the else branch only warns.
ApplyStep(step, image) ==
    IF step = "grayscale" THEN convert_to_grayscale(image)
    ELSE IF step = "denoise" THEN denoise(image)
    ELSE IF step = "threshold" THEN apply_threshold(image)
    ELSE IF step = "morphology" THEN morphological_operations(image)
    ELSE IF step = "skew_correction" THEN correct_skew(image)
    ELSE IF step = "enhance" THEN enhance_image(image)
    ELSE Done(image)

\* The loop of preprocess from the i-th step on; calls lists the step methods
\* called so far.
RECURSIVE PreprocessLoop(_, _, _, _)
PreprocessLoop(image, steps, i, calls) ==
    IF i > Len(steps) THEN [out |-> Ok, image |-> image, calls |-> calls]
    ELSE LET r == ApplyStep(steps[i], image)
             called == IF steps[i] \in RecognizedSteps THEN Append(calls, steps[i])
                       ELSE calls
         IN IF r.out # Ok THEN [out |-> r.out, image |-> r.image, calls |-> called]
            ELSE PreprocessLoop(r.image, steps, i + 1, called)

\* A loop that leaves at the first step it does not know.
RECURSIVE StopAtUnknown(_)
StopAtUnknown(steps) ==
    IF steps = <<>> \/ Head(steps) \notin RecognizedSteps THEN <<>>
    ELSE <<Head(steps)>> \o StopAtUnknown(Tail(steps))

preprocess_StopAtUnknown(image, steps) == PreprocessLoop(image, StopAtUnknown(steps), 1, <<>>)

\* A loop that logs a failed step and goes on with the image it had.
RECURSIVE SkipFailed(_, _, _, _)
SkipFailed(image, steps, i, calls) ==
    IF i > Len(steps) THEN [out |-> Ok, image |-> image, calls |-> calls]
    ELSE LET r == ApplyStep(steps[i], image)
             called == IF steps[i] \in RecognizedSteps THEN Append(calls, steps[i])
                       ELSE calls
         IN SkipFailed(IF r.out # Ok THEN image ELSE r.image, steps, i + 1, called)

preprocess_SkipFailed(image, steps) == SkipFailed(image, steps, 1, <<>>)

\* ImagePreprocessor.preprocess(image) with processing_steps = steps.
preprocess(image, steps) == PreprocessLoop(image, steps, 1, <<>>)

StepNames == {"grayscale", "threshold", "skew_correction", "sharpen"}

StepLists == UNION { [1..n -> StepNames] : n \in 0..MaxSteps }

Originals == { Img(mode, skewed, <<>>) : mode \in {"RGB", "L"}, skewed \in BOOLEAN }

Preprocess(image, steps) ==
    /\ LET r == preprocess(image, steps) IN
        prep' = [called |-> TRUE, image |-> image, steps |-> steps, out |-> r.out,
                 result |-> r.image, calls |-> r.calls]
    /\ UNCHANGED <<ext, sub, wait, retry, configVars, validateVars, ocrVars, solverVars, runVars>>

(***************************************************************************)
(* correct_skew from the lines of the Hough transform on.  A line is its   *)
(* theta in whole degrees, 0..179, as the transform's resolution is one    *)
(* degree; a median is kept as twice its value, the median of an even      *)
(* number of angles being the mean of the middle two.                      *)
(***************************************************************************)
\* The rotation angle of a line: angle - 180 above 90 degrees.
rotation_angle(theta) == IF theta > 90 THEN theta - 180 ELSE theta

RECURSIVE Insert(_, _)
Insert(a, sorted) ==
    IF sorted = <<>> THEN <<a>>
    ELSE IF a <= Head(sorted) THEN <<a>> \o sorted
    ELSE <<Head(sorted)>> \o Insert(a, Tail(sorted))

RECURSIVE Sorted(_)
Sorted(q) == IF q = <<>> THEN <<>> ELSE Insert(Head(q), Sorted(Tail(q)))

\* Twice np.median(angles), for a list that is not empty.
np_median2(angles) ==
    LET sorted == Sorted(angles)
        n == Len(angles)
    IN IF n % 2 = 1 THEN 2 * sorted[(n + 1) \div 2]
       ELSE sorted[n \div 2] + sorted[n \div 2 + 1]

Abs(x) == IF x < 0 THEN -x ELSE x

\* Twice the angle correct_skew rotates by: 0 when it finds nothing to correct.
skew_angle2(lines) ==
    IF lines = <<>> THEN 0
    ELSE LET median2 == np_median2([i \in 1..Len(lines) |-> rotation_angle(lines[i])])
         IN IF Abs(median2) > 2 THEN median2 ELSE 0

\* The lines the transform may find: off 90 degrees and off one degree, where
\* the rounding of theta * 180 / pi decides the comparison.
Thetas == {0, 2, 45, 91, 135, 178}

LineLists == UNION { [1..n -> Thetas] : n \in 0..MaxLines }

\* correct_skew(image) on an image of the given mode in which the transform
\* finds the given lines.
CorrectSkew(mode, lines) ==
    /\ \E image \in {Img(mode, skew_angle2(lines) # 0, <<>>)} :
       \E r \in {correct_skew(image)} :
          prep' = [called |-> TRUE, image |-> image, steps |-> <<>>, out |-> r.out,
                   result |-> r.image, calls |-> <<"skew_correction">>, lines |-> lines,
                   rotated2 |-> IF r.out = Ok /\ r.image # image THEN skew_angle2(lines)
                                ELSE 0]
    /\ UNCHANGED <<ext, sub, wait, retry, configVars, validateVars, ocrVars, solverVars, runVars>>

(***************************************************************************)
(* The extractor (extractor.py).  An element is what its screenshot, its   *)
(* src attribute and its style attribute give; a driver is absent, live,   *)
(* or dead (its current_url raises).                                       *)
(***************************************************************************)
Element(screenshot, src, style) == [screenshot |-> screenshot, src |-> src, style |-> style]

\* Image.open on the screenshot's bytes.
ScreenshotImage(element) ==
    IF element.screenshot = "png" THEN "screenshot image" ELSE "None"

\* _download_image_from_src: the image behind a URL, None on any failure.
download_image_from_src(src) ==
    IF src = "a.png" THEN "image of a.png"
    ELSE IF src = "b.png" THEN "image of b.png"
    ELSE "None"

\* 'background-image' in style, and the URL that the url(...) pattern finds.
HasBackgroundImage(style) ==
    style \in {"background-image: url(b.png)", "background-image: url(gone.png)",
               "background-image: none"}

BackgroundUrl(style) ==
    IF style = "background-image: url(b.png)" THEN "b.png"
    ELSE IF style = "background-image: url(gone.png)" THEN "gone.png"
    ELSE "None"

\* Method 1: the image, or "None" when the attempt failed.
TryScreenshot(element) ==
    IF element.screenshot = "raises" THEN "None" ELSE ScreenshotImage(element)

\* Method 2.
TrySrc(element, driver) ==
    IF element.src \in {"raises", "None"} THEN "None"
    ELSE IF driver = "dead" THEN "None"
    ELSE download_image_from_src(element.src)

\* Method 3.
TryBackground(element, driver) ==
    IF element.style \in {"raises", "None"} \/ ~HasBackgroundImage(element.style) THEN "None"
    ELSE IF BackgroundUrl(element.style) = "None" THEN "None"
    ELSE IF driver = "dead" THEN "None"
    ELSE download_image_from_src(BackgroundUrl(element.style))

Extracted(image, attempts) == [image |-> image, attempts |-> attempts, raised |-> FALSE]

extract_from_element_SrcFirst(element, driver) ==
    IF TrySrc(element, driver) # "None"
    THEN Extracted(TrySrc(element, driver), <<"src">>)
    ELSE IF TryScreenshot(element) # "None"
    THEN Extracted(TryScreenshot(element), <<"src", "screenshot">>)
    ELSE Extracted(TryBackground(element, driver), <<"src", "screenshot", "background">>)

\* CAPTCHAExtractor.extract_from_element: attempts lists the methods tried.
extract_from_element(element, driver) ==
    IF TryScreenshot(element) # "None"
    THEN Extracted(TryScreenshot(element), <<"screenshot">>)
    ELSE IF TrySrc(element, driver) # "None"
    THEN Extracted(TrySrc(element, driver), <<"screenshot", "src">>)
    ELSE Extracted(TryBackground(element, driver), <<"screenshot", "src", "background">>)

Elements ==
    { Element(sc, src, st) :
        sc \in {"raises", "garbage", "png"},
        src \in {"raises", "None", "a.png", "gone.png"},
        st \in {"raises", "None", "color: red", "background-image: none",
                "background-image: url(b.png)", "background-image: url(gone.png)"} }

Drivers == {"None", "live", "dead"}

NoExt == [called |-> FALSE, element |-> Element("raises", "raises", "raises"),
          driver |-> "None", image |-> "None", attempts |-> <<>>, raised |-> FALSE]

ExtractFromElement(element, driver) ==
    /\ LET r == extract_from_element(element, driver) IN
        ext' = [called |-> TRUE, element |-> element, driver |-> driver,
                image |-> r.image, attempts |-> r.attempts, raised |-> r.raised]
    /\ UNCHANGED <<prep, sub, wait, retry, configVars, validateVars, ocrVars, solverVars, runVars>>

(***************************************************************************)
(* The form submitter (submitter.py).  A page says whether the form is     *)
(* found, what the caller's input selector finds inside it, what each      *)
(* selector of _find_captcha_input finds, and whether submitting works.    *)
(***************************************************************************)
captcha_selectors ==
    << "input[name*=captcha]", "input[id*=captcha]", "input[class*=captcha]",
       "input[name*=verify]", "input[id*=verify]", "input[name*=code]",
       "input[id*=code]", "input[type=text]" >>

\* What a selector finds: "absent" (NoSuchElementException), "hidden" (not
\* displayed or not enabled), "usable", or "stale" (another exception).
NoInput == [i \in 1..Len(captcha_selectors) |-> "absent"]

\* _find_captcha_input from the i-th selector on: the selector's place, 0 for
\* None, -1 for an exception that is not NoSuchElementException.
RECURSIVE FindCaptchaInput(_, _)
FindCaptchaInput(finds, i) ==
    IF i > Len(captcha_selectors) THEN 0
    ELSE IF finds[i] = "usable" THEN i
    ELSE IF finds[i] = "stale" THEN -1
    ELSE FindCaptchaInput(finds, i + 1)

Submission(result, filled, submitted) ==
    [result |-> result, filled |-> filled, submitted |-> submitted, raised |-> FALSE]

\* _clear_and_fill_input: False when scrolling, clearing or typing raises.
clear_and_fill_input(page) == page.fills

\* _click_element on the submit control: True when one of the click methods works.
click_element(page) == page.button = "clicks"

\* _submit_form.  The submit control is the one the submit selector or the
\* first matching heuristic selector finds: "absent" when there is none, "stale"
\* when looking for it raises, "clicks" or "unclickable" as the click methods
\* do; with none the form is submitted directly, which page.direct says to work
\* or to raise.  What _click_element returns is not looked at.
submit_form(page) ==
    IF page.button = "stale" THEN [result |-> FALSE, submitted |-> FALSE]
    ELSE IF page.button = "absent"
    THEN [result |-> page.direct, submitted |-> page.direct]
    ELSE [result |-> TRUE, submitted |-> click_element(page)]

submit_captcha_NoInputCheck(page, input_selector) ==
    IF ~page.form THEN Submission(FALSE, FALSE, FALSE)
    ELSE IF input_selector = "None" /\ FindCaptchaInput(page.finds, 1) = -1
    THEN Submission(FALSE, FALSE, FALSE)
    ELSE Submission(submit_form(page).result, FALSE, submit_form(page).submitted)

\* FormSubmitter.submit_captcha; "None" for no input selector.  filled and
\* submitted say whether the input was written and the form sent.  What
\* _clear_and_fill_input returns is not looked at.
submit_captcha(page, input_selector) ==
    IF ~page.form THEN Submission(FALSE, FALSE, FALSE)
    ELSE LET input_element ==
                 IF input_selector # "None"
                 THEN (IF page.given = "found" THEN 1 ELSE 0)
                 ELSE FindCaptchaInput(page.finds, 1)
         IN IF input_element = -1 THEN Submission(FALSE, FALSE, FALSE)
            ELSE IF input_element = 0 THEN Submission(FALSE, FALSE, FALSE)
            ELSE Submission(submit_form(page).result, clear_and_fill_input(page),
                            submit_form(page).submitted)

InputFinds ==
    {NoInput}
    \cup { [NoInput EXCEPT ![i] = o] :
             i \in 1..Len(captcha_selectors), o \in {"hidden", "usable", "stale"} }
    \cup { [NoInput EXCEPT ![1] = "hidden", ![8] = "usable"],
           [NoInput EXCEPT ![2] = "usable", ![3] = "stale"] }

Pages ==
    { [form |-> FALSE, given |-> "missing", finds |-> NoInput, fills |-> FALSE,
       button |-> "absent", direct |-> FALSE] }
    \cup
    { [form |-> TRUE, given |-> g, finds |-> fs, fills |-> fl, button |-> b[1],
       direct |-> b[2]] :
        g \in {"found", "missing"}, fs \in InputFinds, fl \in BOOLEAN,
        b \in { <<"absent", TRUE>>, <<"absent", FALSE>>, <<"stale", FALSE>>,
                <<"clicks", FALSE>>, <<"unclickable", FALSE>> } }

InputSelectors == {"None", "#answer"}

NoSub == [called |-> FALSE,
          page |-> [form |-> FALSE, given |-> "missing", finds |-> NoInput, fills |-> FALSE,
                    button |-> "absent", direct |-> FALSE],
          input_selector |-> "None", result |-> FALSE, filled |-> FALSE,
          submitted |-> FALSE, raised |-> FALSE]

SubmitCaptcha(page, input_selector) ==
    /\ LET r == submit_captcha(page, input_selector) IN
        sub' = [called |-> TRUE, page |-> page, input_selector |-> input_selector,
                result |-> r.result, filled |-> r.filled, submitted |-> r.submitted,
                raised |-> r.raised]
    /\ UNCHANGED <<prep, ext, wait, retry, configVars, validateVars, ocrVars, solverVars, runVars>>

(***************************************************************************)
(* FormSubmitter.wait_for_result.  Time counts in half seconds, the sleep  *)
(* of the loop.  The page says what each success and each error selector   *)
(* finds ("absent", "hidden", "visible", or "stale" for an exception that  *)
(* is not NoSuchElementException) and what the URL is; one turn of the     *)
(* loop sees the page as it is at that moment.                             *)
(***************************************************************************)
\* The outcomes tried for the i-th selector of a list.
OutcomesAt(i) == IF i = 1 THEN {"absent", "hidden", "visible"}
                 ELSE {"absent", "visible", "stale"}

success_selectors == <<".success", ".alert-success">>

error_selectors == <<".error", ".alert-error">>

Urls == {"form", "next"}

\* The scan of one selector list from the i-th on: "visible", "raises", or
\* "nothing".
RECURSIVE Scan(_, _)
Scan(finds, i) ==
    IF i > Len(finds) THEN "nothing"
    ELSE IF finds[i] = "visible" THEN "visible"
    ELSE IF finds[i] = "stale" THEN "raises"
    ELSE Scan(finds, i + 1)

BlankPage == [success |-> <<"absent", "absent">>, error |-> <<"absent", "absent">>,
              url |-> "form"]

\* The return of wait_for_result; snapshot keeps the page that the returning
\* turn saw.
Returns(w, page, status, exception) ==
    [w EXCEPT !.pc = "done", !.status = status, !.exception = exception, !.snapshot = page]

poll_ErrorFirst(w, page, latency) ==
    IF ~(w.elapsed < 2 * w.timeout) THEN Returns(w, BlankPage, "timeout", FALSE)
    ELSE IF Scan(page.error, 1) = "visible" THEN Returns(w, page, "error", FALSE)
    ELSE IF Scan(page.error, 1) = "raises" THEN Returns(w, page, "error", TRUE)
    ELSE IF Scan(page.success, 1) = "visible" THEN Returns(w, page, "success", FALSE)
    ELSE IF Scan(page.success, 1) = "raises" THEN Returns(w, page, "error", TRUE)
    ELSE IF w.has_initial_url /\ page.url # w.initial_url
    THEN Returns(w, page, "redirect", FALSE)
    ELSE [w EXCEPT !.elapsed = @ + 1 + latency]

\* One turn of the while loop, the loop's test included; latency is the time
\* the driver's calls took on top of the sleep.
poll(w, page, latency) ==
    IF ~(w.elapsed < 2 * w.timeout) THEN Returns(w, BlankPage, "timeout", FALSE)
    ELSE IF Scan(page.success, 1) = "visible" THEN Returns(w, page, "success", FALSE)
    ELSE IF Scan(page.success, 1) = "raises" THEN Returns(w, page, "error", TRUE)
    ELSE IF Scan(page.error, 1) = "visible" THEN Returns(w, page, "error", FALSE)
    ELSE IF Scan(page.error, 1) = "raises" THEN Returns(w, page, "error", TRUE)
    ELSE IF w.has_initial_url /\ page.url # w.initial_url
    THEN Returns(w, page, "redirect", FALSE)
    ELSE [w EXCEPT !.elapsed = @ + 1 + latency]

NoWait == [pc |-> "idle", page |-> BlankPage, has_initial_url |-> FALSE,
           initial_url |-> "form", timeout |-> 0, elapsed |-> 0,
           snapshot |-> BlankPage, status |-> "none", exception |-> FALSE,
           observed |-> FALSE]

\* What a turn of the loop has to report on a page.
Reportable(w, page) ==
    \/ \E i \in 1..Len(page.success) : page.success[i] \in {"visible", "stale"}
    \/ \E i \in 1..Len(page.error) : page.error[i] \in {"visible", "stale"}
    \/ w.has_initial_url /\ page.url # w.initial_url

\* _submit_form keeps the URL of the page it submits from.
SubmitForm ==
    /\ wait.pc # "polling"
    /\ wait' = [NoWait EXCEPT !.page = wait.page, !.has_initial_url = TRUE,
                              !.initial_url = wait.page.url]
    /\ UNCHANGED <<prep, ext, sub, retry, configVars, validateVars, ocrVars, solverVars, runVars>>

WaitForResult(timeout) ==
    /\ wait.pc # "polling"
    /\ wait' = [wait EXCEPT !.pc = "polling", !.timeout = timeout, !.elapsed = 0,
                            !.snapshot = BlankPage, !.status = "none",
                            !.exception = FALSE, !.observed = FALSE]
    /\ UNCHANGED <<prep, ext, sub, retry, configVars, validateVars, ocrVars, solverVars, runVars>>

Poll(latency) ==
    /\ wait.pc = "polling"
    /\ wait' = [poll(wait, wait.page, latency) EXCEPT
                   !.observed = @ \/ (wait.elapsed < 2 * wait.timeout
                                      /\ Reportable(wait, wait.page))]
    /\ UNCHANGED <<prep, ext, sub, retry, configVars, validateVars, ocrVars, solverVars, runVars>>

PollStep == \E latency \in {0, 1} : Poll(latency)

\* The page changes under the waiting caller: one selector's element, or the URL.
PageChange ==
    /\ wait.pc = "polling"
    /\ \/ \E i \in 1..Len(success_selectors) : \E o \in OutcomesAt(i) :
             /\ wait.page.success[i] # o
             /\ wait' = [wait EXCEPT !.page.success[i] = o]
       \/ \E i \in 1..Len(error_selectors) : \E o \in OutcomesAt(i) :
             /\ wait.page.error[i] # o
             /\ wait' = [wait EXCEPT !.page.error[i] = o]
       \/ \E u \in Urls :
             /\ wait.page.url # u
             /\ wait' = [wait EXCEPT !.page.url = u]
    /\ UNCHANGED <<prep, ext, sub, retry, configVars, validateVars, ocrVars, solverVars, runVars>>

(***************************************************************************)
(* utils.retry_operation(func, max_attempts, delay, exceptions).  A call   *)
(* of func returns ("ok"), raises an exception of the listed classes       *)
(* ("listed") or raises another one ("unlisted"); calls keeps the outcomes *)
(* and waits the sleeps, in order.                                         *)
(***************************************************************************)
RECURSIVE Pow2(_)
Pow2(k) == IF k = 0 THEN 1 ELSE 2 * Pow2(k - 1)

CallOutcomes == {"ok", "listed", "unlisted"}

\* No value, no exception.
Nothing == <<"None", 0>>

NoRetry == [pc |-> "idle", max_attempts |-> 0, delay |-> 0, attempt |-> 0,
            calls |-> <<>>, waits |-> <<>>, last_exception |-> Nothing,
            result |-> Nothing, raised |-> Nothing]

attempt_step_SleepsAfterLast(r, outcome) ==
    IF outcome = "ok"
    THEN [r EXCEPT !.pc = "done", !.calls = Append(@, outcome),
                   !.result = <<"value", r.attempt>>]
    ELSE IF outcome = "unlisted"
    THEN [r EXCEPT !.pc = "done", !.calls = Append(@, outcome),
                   !.raised = <<"unlisted", r.attempt>>]
    ELSE [r EXCEPT !.calls = Append(@, outcome),
                   !.last_exception = <<"listed", r.attempt>>,
                   !.waits = Append(@, r.delay * Pow2(r.attempt)),
                   !.attempt = @ + 1]

\* One turn of the for loop: the call of func and what follows it.
attempt_step(r, outcome) ==
    IF outcome = "ok"
    THEN [r EXCEPT !.pc = "done", !.calls = Append(@, outcome),
                   !.result = <<"value", r.attempt>>]
    ELSE IF outcome = "unlisted"
    THEN [r EXCEPT !.pc = "done", !.calls = Append(@, outcome),
                   !.raised = <<"unlisted", r.attempt>>]
    ELSE [r EXCEPT !.calls = Append(@, outcome),
                   !.last_exception = <<"listed", r.attempt>>,
                   !.waits = IF r.attempt < r.max_attempts - 1
                             THEN Append(@, r.delay * Pow2(r.attempt)) ELSE @,
                   !.attempt = @ + 1]

RetryOperation(max_attempts, delay) ==
    /\ retry.pc # "running"
    /\ retry' = [NoRetry EXCEPT !.pc = "running", !.max_attempts = max_attempts,
                                !.delay = delay]
    /\ UNCHANGED <<prep, ext, sub, wait, configVars, validateVars, ocrVars, solverVars, runVars>>

Attempt(outcome) ==
    /\ retry.pc = "running"
    /\ retry.attempt < retry.max_attempts
    /\ retry' = attempt_step(retry, outcome)
    /\ UNCHANGED <<prep, ext, sub, wait, configVars, validateVars, ocrVars, solverVars, runVars>>

\* The loop is over: raise last_exception, a TypeError when it is still None.
Exhausted ==
    /\ retry.pc = "running"
    /\ ~(retry.attempt < retry.max_attempts)
    /\ retry' = [retry EXCEPT !.pc = "done",
                    !.raised = IF retry.last_exception = Nothing THEN <<"TypeError", 0>>
                               ELSE retry.last_exception]
    /\ UNCHANGED <<prep, ext, sub, wait, configVars, validateVars, ocrVars, solverVars, runVars>>

(***************************************************************************)
(* The preprocessor, extractor, submitter and helpers before any call.     *)
(***************************************************************************)
(***************************************************************************)
(* The command (cli.py).  A run is a process of its own: the class-level   *)
(* defaults are as written, the solver is new.  An argument that was not   *)
(* given is "None"; the outcome of the run is the exit code of the process *)
(* with what it printed.                                                   *)
(***************************************************************************)
Falsy(a) == a \in {"None", ""}

Wildcards == {"*.png", "none*.png"}

\* glob(pattern): the existing paths the pattern matches.
glob(pattern) ==
    IF pattern = "*.png" THEN <<"corrupt.png", "img1.png", "img2.png">> ELSE <<>>

Path_is_file(f) == Exists(f) /\ IsFile(f)

RECURSIVE Expanded(_)
Expanded(patterns) ==
    IF patterns = <<>> THEN <<>>
    ELSE (IF Head(patterns) \in Wildcards THEN glob(Head(patterns)) ELSE <<Head(patterns)>>)
         \o Expanded(Tail(patterns))

\* expand_file_patterns: exits the process when no pattern names a file.
expand_file_patterns(patterns) ==
    LET existing_files == SelectSeq(Expanded(patterns), Path_is_file)
    IN [exits |-> existing_files = <<>>, files |-> existing_files]

\* The dictionary of solve_single_image and of cli.solve_from_url.
SingleResult(r) ==
    IF r.raised
    THEN [result |-> <<>>, confidence |-> Zero, success |-> FALSE, error |-> TRUE]
    ELSE [result |-> r.text, confidence |-> r.solver.last_confidence,
          success |-> StripsNonEmpty(r.text), error |-> FALSE]

solve_single_image(st, conf, eng, image_path, fault) ==
    CHOOSE d \in { SingleResult(r) :
                   r \in {solve_from_file(st, conf, eng, 1, image_path, fault)} } : TRUE

cli_solve_from_url(st, conf, eng, url, extracted, fault) ==
    CHOOSE d \in { SingleResult(r) :
                   r \in {solve_from_url(st, conf, eng, 1, url, extracted, fault)} } : TRUE

\* How a run ends: the exit code, the branch of main that ended it, the single
\* result or the batch entries it printed, and the statistics of a batch.
Ended(code, by, single, entries, stats, summary) ==
    [code |-> code, by |-> by, single |-> single, entries |-> entries,
     stats |-> stats, summary |-> summary]

NoSingle == [result |-> <<>>, confidence |-> Zero, success |-> FALSE, error |-> FALSE]

NoStats == [total |-> 0, successful |-> 0, success_rate |-> Zero]

Exit(code, by) == Ended(code, by, NoSingle, <<>>, NoStats, FALSE)

print_single_NoExit(single) ==
    CHOOSE end \in { Ended(0, "print_results", r, <<>>, NoStats, FALSE) : r \in {single} } : TRUE

\* print_results on a single result: sys.exit(1) when it is no success.
print_single(single) ==
    CHOOSE end \in { Ended(IF r.success THEN 0 ELSE 1, "print_results", r, <<>>, NoStats, FALSE) :
                     r \in {single} } : TRUE

\* The statistics of main over the entries of solve_batch.
Statistics(batch_results) ==
    CHOOSE stats \in
        { [total |-> Len(batch_results), successful |-> successful,
           success_rate |-> IF Len(batch_results) > 0
                            THEN Rat(successful * 100, Len(batch_results)) ELSE Zero] :
          successful \in { Cardinality({ i \in 1..Len(batch_results) :
                                           batch_results[i].success }) } } : TRUE

\* print_results on batch results: a line per entry, and the summary unless quiet.
print_batch(batch_results, quiet) ==
    Ended(0, "print_results", NoSingle, batch_results, Statistics(batch_results), ~quiet)

run_batch(st, conf, eng, patterns, faults, quiet) ==
    CHOOSE done \in
        { IF e.exits THEN Exit(1, "expand_file_patterns")
          ELSE CHOOSE end \in
                  { IF b.raised THEN Exit(1, "unexpected error")
                    ELSE print_batch(b.results, quiet) :
                    b \in {solve_batch(st, conf, eng, 0, e.files,
                                       [i \in 1..Len(e.files) |-> faults])} } : TRUE :
          e \in {expand_file_patterns(patterns)} } : TRUE

\* cli.main from the loaded configuration on: c is what load_config_from_args
\* gave, conf its mapping with the references followed.  env is what the run
\* meets: whether the components can be built, whether their self-tests pass,
\* what the page gives and which stage of a solve fails.
main_with(eng, args, env, c, conf, st) ==
    IF args.utility # "none"
    THEN IF c.out # Ok THEN Exit(1, "config")
         ELSE IF env.initFails THEN Exit(1, "traceback")
         ELSE IF args.utility = "test_components" /\ ~env.testsPass
              THEN Exit(1, "test_components")
         ELSE Exit(0, args.utility)
    ELSE IF Falsy(args.image) /\ Falsy(args.url) /\ args.batch = <<>>
    THEN Exit(1, "print_help")
    ELSE IF c.out # Ok THEN Exit(1, "config")
    ELSE IF env.initFails THEN Exit(1, "init")
    ELSE IF ~Falsy(args.image)
    THEN print_single(solve_single_image(st, conf, eng, args.image, env.fault))
    ELSE IF ~Falsy(args.url)
    THEN print_single(cli_solve_from_url(st, conf, eng, args.url, env.extracted, env.fault))
    ELSE run_batch(st, conf, eng, args.batch, env.fault, args.quiet)

\* cli.main, from the parsed arguments on.
main(eng, args, env) ==
    CHOOSE end \in
        { main_with(eng, args, env, c[1], c[2],
                    [solver |-> NewSolver, ocr |-> NewHandler, history |-> <<>>]) :
          c \in { <<d, Resolve(d.top, d.defs)>> :
                  d \in {load_config_from_args(DEFAULT_CONFIG, args)} } } : TRUE

NoRun == [ran |-> FALSE, args |-> "none", env |-> "none", end |-> Exit(0, "none")]

\* A process runs main once.
Main(args, env) ==
    /\ ~cli.ran
    /\ \E end \in {main(engine, args, env)} :
           cli' = [ran |-> TRUE, args |-> args, env |-> env, end |-> end]
    /\ UNCHANGED <<resources, configVars, validateVars, ocrVars, solverVars, toolVars>>

(***************************************************************************)
(* The resources: the browser driver of extract_with_selenium and the HTTP *)
(* session of the extractor, which a CAPTCHASolver holds from its          *)
(* construction on.  env says what the browser does: whether Chrome        *)
(* starts, whether the page loads, and what each selector leads to: a      *)
(* "timeout" or an "absent" element, an element with an "image" or with    *)
(* "no image", or "stale" for any other exception.                         *)
(***************************************************************************)
selenium_selectors ==
    << "img[src*=captcha]", "img[alt*=captcha]", "img[id*=captcha]", "canvas[id*=captcha]" >>

\* The loop over the selectors from the i-th on: what it returns, or "raises".
RECURSIVE SelectorLoop(_, _)
SelectorLoop(finds, i) ==
    IF i > Len(selenium_selectors) THEN "None"
    ELSE IF finds[i] = "image" THEN "image"
    ELSE IF finds[i] = "stale" THEN "raises"
    ELSE SelectorLoop(finds, i + 1)

\* What a call of extract_with_selenium leaves: the drivers it created and
\* those it quit, what it returned, and whether an exception left it.
Extraction(created, quit, result) ==
    [created |-> created, quit |-> quit, result |-> result, raised |-> FALSE]

extract_with_selenium_QuitOnSuccess(env) ==
    IF ~env.chrome THEN Extraction(0, 0, "None")
    ELSE IF ~env.loads THEN Extraction(1, 0, "None")
    ELSE IF SelectorLoop(env.finds, 1) = "image" THEN Extraction(1, 1, "image")
    ELSE Extraction(1, 0, "None")

\* CAPTCHAExtractor.extract_with_selenium: the except clause turns every
\* exception into None, the finally clause quits the driver if there is one.
extract_with_selenium(env) ==
    IF ~env.chrome THEN Extraction(0, 0, "None")
    ELSE IF ~env.loads THEN Extraction(1, 1, "None")
    ELSE IF SelectorLoop(env.finds, 1) = "image" THEN Extraction(1, 1, "image")
    ELSE Extraction(1, 1, "None")

\* CAPTCHASolver.cleanup: closeOk says whether session.close() returns; an
\* exception out of it is logged.
cleanup(session, closeOk) ==
    [session |-> IF closeOk THEN "closed" ELSE session, closeCalled |-> TRUE,
     raised |-> FALSE]

NoRes == [op |-> "none", env |-> "none", created |-> 0, quit |-> 0, result |-> "None",
          raised |-> FALSE, session |-> "none", closeCalled |-> FALSE, closeOk |-> TRUE,
          left |-> "none"]

ExtractWithSelenium(env) ==
    /\ \E r \in {extract_with_selenium(env)} :
          resources' = [resources EXCEPT !.op = "extract_with_selenium", !.env = env,
                                         !.created = r.created, !.quit = r.quit,
                                         !.result = r.result, !.raised = r.raised]
    /\ UNCHANGED <<cli, configVars, validateVars, ocrVars, solverVars, toolVars>>

\* with CAPTCHASolver() as solver: the extractor opens its session.
EnterWith ==
    /\ resources.session \in {"none", "closed"}
    /\ resources' = [resources EXCEPT !.op = "__enter__", !.session = "open",
                                      !.closeCalled = FALSE, !.left = "none",
                                      !.raised = FALSE]
    /\ UNCHANGED <<cli, configVars, validateVars, ocrVars, solverVars, toolVars>>

\* Leaving the block: __exit__ calls cleanup and returns None, so an exception
\* of the block goes on to the caller.  how is "normally" or "exception".
LeaveWith(how, closeOk) ==
    /\ resources.session = "open"
    /\ resources.op # "__exit__"
    /\ \E r \in {cleanup(resources.session, closeOk)} :
          resources' = [resources EXCEPT !.op = "__exit__", !.session = r.session,
                                         !.closeCalled = r.closeCalled,
                                         !.closeOk = closeOk, !.left = how,
                                         !.raised = r.raised]
    /\ UNCHANGED <<cli, configVars, validateVars, ocrVars, solverVars, toolVars>>

NoPrep == [called |-> FALSE, image |-> Img("none", FALSE, <<>>), steps |-> <<>>, out |-> Ok,
           result |-> Img("none", FALSE, <<>>), calls |-> <<>>]

ToolsIdle ==
    /\ prep = NoPrep
    /\ ext = NoExt
    /\ sub = NoSub
    /\ wait = NoWait
    /\ retry = NoRetry
    /\ cli = NoRun
    /\ resources = NoRes

(***************************************************************************)
(* The inputs the configuration operations are called with.                *)
(***************************************************************************)
OcrSection(t) == "ocr" :> DictE("confidence_threshold" :> IntV(t))

FileInputs ==
    { NoFile, BadJsonFile,
      JsonFile(OcrSection(80)),
      JsonFile(OcrSection(101)),
      JsonFile("extraction" :> DictE("timeout" :> IntV(0))),
      JsonFile("preprocessing" :> DictE("steps" :> ListV(<<"grayscale", "enhance">>))) }

SetInputs ==
    { [path |-> <<"ocr", "confidence_threshold">>, value |-> IntV(101)],
      [path |-> <<"selenium", "timeout">>, value |-> IntV(0)],
      [path |-> <<"ocr">>, value |-> IntV(7)] }

\* The parsed arguments.  threshold_flag says whether --confidence-threshold was on
\* the command line; without it the parser gives the flag's default, 60.
CliArgs ==
    { [config |-> NoFile, tesseract_config |-> NoneV, threshold_flag |-> FALSE,
       confidence_threshold |-> IntV(60), preprocessing_steps |-> NoneV],
      [config |-> JsonFile(OcrSection(80)), tesseract_config |-> NoneV,
       threshold_flag |-> FALSE,
       confidence_threshold |-> IntV(60), preprocessing_steps |-> NoneV],
      [config |-> JsonFile(OcrSection(80)), tesseract_config |-> StrV("--psm 7"),
       threshold_flag |-> TRUE,
       confidence_threshold |-> IntV(0), preprocessing_steps |-> NoneV],
      [config |-> NoFile, tesseract_config |-> NoneV, threshold_flag |-> TRUE,
       confidence_threshold |-> IntV(30), preprocessing_steps |-> NoneV],
      [config |-> NoFile, tesseract_config |-> NoneV, threshold_flag |-> TRUE,
       confidence_threshold |-> IntV(150),
       preprocessing_steps |-> ListV(<<"grayscale", "enhance">>)] }

GetPaths ==
    { <<"ocr", "confidence_threshold">>, <<"ocr">>, <<"ocr", "nosuch">>, <<"nosuch">>,
      <<"nosuch", "key">> }

GetDefaults == { ScalarE(NoneV), ScalarE(IntV(5)) }

DictOverlays ==
    { "ocr" :> DictE("dpi" :> IntV(150)),
      ("tesseract" :> DictE("config" :> StrV("--psm 7"))) @@ OcrSection(500) }

(***************************************************************************)
(* The configuration store: the operations on Config instances.            *)
(***************************************************************************)
Instances == 1..Len(configs)

Effective(i) == Resolve(configs[i], defaults)

\* A constructing call: the instance exists only when the call returned.
Built(op, r, fileGiven, in) ==
    /\ defaults' = r.defs
    /\ configs' = IF r.out = Ok THEN Append(configs, r.top) ELSE configs
    /\ cfgRet' = [op |-> op, inst |-> IF r.out = Ok THEN Len(configs) + 1 ELSE 0,
                  fileGiven |-> fileGiven, out |-> r.out, in |-> in]

Construct(file) ==
    /\ Len(configs) < MaxConfigs
    /\ Built("Config", Config_init(defaults, file), file.given, file)
    /\ UNCHANGED <<validateVars, ocrVars, solverVars, toolVars, runVars>>

Set(i, in) ==
    /\ LET r == Config_set(configs[i], defaults, in.path, in.value) IN
        /\ defaults' = r.defs
        /\ configs' = [configs EXCEPT ![i] = r.top]
        /\ cfgRet' = [op |-> "set", inst |-> i, fileGiven |-> FALSE, out |-> r.out,
                      in |-> in]
    /\ UNCHANGED <<validateVars, ocrVars, solverVars, toolVars, runVars>>

LoadConfigFromArgs(args) ==
    /\ Len(configs) < MaxConfigs
    /\ Built("load_config_from_args", load_config_from_args(defaults, args),
             args.config.given, args)
    /\ UNCHANGED <<validateVars, ocrVars, solverVars, toolVars, runVars>>

SolverInit(overlay) ==
    /\ Len(configs) < MaxConfigs
    /\ Built("CAPTCHASolver", Solver_init_dict(defaults, overlay), FALSE, overlay)
    /\ UNCHANGED <<validateVars, ocrVars, solverVars, toolVars, runVars>>

\* Config.get on a live instance: in.got is what the call returned.
Get(i, path, default) ==
    /\ cfgRet' = [op |-> "get", inst |-> i, fileGiven |-> FALSE, out |-> Ok,
                  in |-> [path |-> path, default |-> default,
                          got |-> Config_get(Effective(i), path, default)]]
    /\ UNCHANGED <<defaults, configs, validateVars, ocrVars, solverVars, toolVars, runVars>>

\* test_components and the callers of validate_config on a live instance.
Validate(i) ==
    /\ cfgRet' = [op |-> "validate_config", inst |-> i, fileGiven |-> FALSE,
                  out |-> validate_config(Effective(i)), in |-> "none"]
    /\ UNCHANGED <<defaults, configs, validateVars, ocrVars, solverVars, toolVars, runVars>>

NoCall == [op |-> "none", inst |-> 0, fileGiven |-> FALSE, out |-> Ok, in |-> "none"]

ConfigStart ==
    /\ defaults = DEFAULT_CONFIG
    /\ configs = <<>>
    /\ cfgRet = NoCall

ValidateIdle ==
    /\ valIn = [k \in {} |-> ScalarE(NoneV)]
    /\ valOut = Pending

InitConfig == ConfigStart /\ ValidateIdle /\ OcrIdle /\ SolverIdle /\ ToolsIdle

NextConfig ==
    \/ \E file \in FileInputs : Construct(file)
    \/ \E i \in Instances, in \in SetInputs : Set(i, in)
    \/ \E args \in CliArgs : LoadConfigFromArgs(args)
    \/ \E overlay \in DictOverlays : SolverInit(overlay)
    \/ \E i \in Instances : Validate(i)
    \/ \E i \in Instances, path \in GetPaths, default \in GetDefaults : Get(i, path, default)

SpecConfig == InitConfig /\ [][NextConfig]_vars

(***************************************************************************)
(* validate_config as a function of the mapping held in self.config, a     *)
(* public attribute: the mapping is drawn from a bounded set and the       *)
(* method is applied to it.                                                *)
(***************************************************************************)
Opt(key, vals) == {EmptyDict} \cup { key :> v : v \in vals }

SectionChoices(s) ==
    IF s = "tesseract" THEN { "config" :> StrV("--psm 8 whitelist") }
    ELSE IF s = "preprocessing"
    THEN { "steps" :> ListV(l) : l \in {DefaultSteps, <<"grayscale", "enhance">>,
                                        <<"grayscale", "sharpen">>} }
    ELSE IF s = "selenium" THEN { "timeout" :> IntV(t) : t \in {10, 0} }
    ELSE IF s = "ocr" THEN Opt("confidence_threshold", {IntV(t) : t \in {-1, 0, 60, 100, 101}})
    ELSE { "timeout" :> IntV(t) : t \in {30, 0} }

ValidateInputs ==
    UNION { [present -> UNION { {DictE(d) : d \in SectionChoices(s)} : s \in present }] :
            present \in SUBSET Sections }

WellTyped(c) == \A s \in DOMAIN c : c[s].d \in SectionChoices(s)

InitValidate ==
    /\ ConfigStart
    /\ valIn \in { c \in ValidateInputs : WellTyped(c) }
    /\ valOut = Pending
    /\ OcrIdle
    /\ SolverIdle
    /\ ToolsIdle

ApplyValidate ==
    /\ valOut = Pending
    /\ valOut' = validate_config(valIn)
    /\ UNCHANGED <<configVars, valIn, ocrVars, solverVars, toolVars, runVars>>

NextValidate == ApplyValidate

SpecValidate == InitValidate /\ [][NextValidate]_vars

(***************************************************************************)
(* The recognizer on its own, under every engine of the family.            *)
(***************************************************************************)
InitOCR ==
    /\ ConfigStart
    /\ ValidateIdle
    /\ engine \in Engines
    /\ ocr = NewHandler
    /\ ocrRet = NoOcrCall
    /\ firstMulti = NoMulti
    /\ SolverIdle
    /\ ToolsIdle

NextOCR ==
    \/ \E image \in Images, custom \in {"", "--psm 7"} : RecognizeText(image, custom)
    \/ \E image \in Images : RecognizeMulti(image)
    \/ \E custom \in {"--psm 13"} : ConfigureTesseract(custom)

SpecOCR == InitOCR /\ [][NextOCR]_vars

(***************************************************************************)
(* The orchestrator, under each configuration and engine of its families.  *)
(***************************************************************************)
InitSolver ==
    /\ ConfigStart
    /\ ValidateIdle
    /\ engine \in SolverEngines
    /\ ocr = NewHandler
    /\ ocrRet = NoOcrCall
    /\ firstMulti = NoMulti
    /\ solverCfg \in SolverConfigs
    /\ solver = NewSolver
    /\ history = <<>>
    /\ clock = 0
    /\ solveRet = NoSolve
    /\ batchRet = NoBatch
    /\ ToolsIdle

NextSolver ==
    \/ /\ clock < MaxRecords
       /\ \E path \in Paths, fault \in Faults : SolveFromFile(path, fault)
    \/ /\ clock < MaxRecords
       /\ \E extracted \in {"None", "raises", "img1"}, fault \in Faults :
              SolveFromUrl(extracted, fault)
    \/ /\ clock < MaxRecords
       /\ \E extracted \in {"None", "img2"}, driver \in {"None", "dead", "http://site/form"},
             fault \in Faults : SolveFromElement(extracted, driver, fault)
    \/ \E result \in ResultTexts, confidence \in ResultConfidences :
           ValidateResult(result, confidence)

SpecSolver == InitSolver /\ [][NextSolver]_vars

(***************************************************************************)
(* The orchestrator solving one readable file again and again, past the    *)
(* limit of its history.                                                   *)
(***************************************************************************)
InitHistory ==
    /\ ConfigStart
    /\ ValidateIdle
    /\ engine = [im \in Images |-> [c \in ConfigSet |-> Rows(<<Token(<<"C">>, 80)>>)]]
    /\ ocr = NewHandler
    /\ ocrRet = NoOcrCall
    /\ firstMulti = NoMulti
    /\ SolverIdle
    /\ ToolsIdle

NextHistory ==
    /\ clock < MaxAttempts
    /\ SolveFromFile("img1.png", "none")

SpecHistory == InitHistory /\ [][NextHistory]_vars

(***************************************************************************)
(* The orchestrator solving lists of paths.                                *)
(***************************************************************************)
InitBatch == InitSolver

NextBatch ==
    \E in \in BatchInputs : clock + Len(in) <= MaxRecords /\ SolveBatch(in)

SpecBatch == InitBatch /\ [][NextBatch]_vars

(***************************************************************************)
(* The preprocessor applied to every image under every list of steps.      *)
(***************************************************************************)
InitPreprocess == InitConfig

NextPreprocess ==
    \E image \in Originals, steps \in StepLists : Preprocess(image, steps)

SpecPreprocess == InitPreprocess /\ [][NextPreprocess]_vars

(***************************************************************************)
(* The extractor applied to every element under every driver.              *)
(***************************************************************************)
InitExtract == InitConfig

NextExtract ==
    \E element \in Elements, driver \in Drivers : ExtractFromElement(element, driver)

SpecExtract == InitExtract /\ [][NextExtract]_vars

(***************************************************************************)
(* The submitter on every page, with and without an input selector.        *)
(***************************************************************************)
InitSubmit == InitConfig

NextSubmit ==
    \E page \in Pages, input_selector \in InputSelectors : SubmitCaptcha(page, input_selector)

SpecSubmit == InitSubmit /\ [][NextSubmit]_vars

(***************************************************************************)
(* Waiting for the result of a submission, the page changing meanwhile.    *)
(* The loop runs in the caller's thread, so a turn that can be taken is    *)
(* taken.                                                                  *)
(***************************************************************************)
InitWait == InitConfig

NextWait ==
    \/ SubmitForm
    \/ \E timeout \in 0..MaxTimeout : WaitForResult(timeout)
    \/ PollStep
    \/ PageChange

SpecWait == InitWait /\ [][NextWait]_vars /\ WF_vars(PollStep)

(***************************************************************************)
(* retry_operation under every run of outcomes of the function.            *)
(***************************************************************************)
InitRetry == InitConfig

NextRetry ==
    \/ \E max_attempts \in 0..MaxTries, delay \in {0, 1, 3} :
           RetryOperation(max_attempts, delay)
    \/ \E outcome \in CallOutcomes : Attempt(outcome)
    \/ Exhausted

SpecRetry == InitRetry /\ [][NextRetry]_vars

(***************************************************************************)
(* The runs of the command: a process for each choice of the arguments,    *)
(* the environment and the installed engine.                               *)
(***************************************************************************)
ConfigArgs ==
    CliArgs \cup
    { [config |-> BadJsonFile, tesseract_config |-> NoneV, threshold_flag |-> FALSE,
       confidence_threshold |-> IntV(60), preprocessing_steps |-> NoneV] }

InputArgs ==
    { [image |-> i, url |-> "None", batch |-> <<>>] :
          i \in {"img1.png", "img2.png", "missing.png", "corrupt.png", ""} }
    \cup { [image |-> "None", url |-> "http://site/login", batch |-> <<>>],
           [image |-> "None", url |-> "None", batch |-> <<>>] }
    \cup { [image |-> "None", url |-> "None", batch |-> b] :
              b \in { <<"img1.png">>, <<"missing.png">>, <<"img1.png", "missing.png">>,
                      <<"*.png">>, <<"none*.png">>, <<"captchas", "img2.png">> } }

RunArgs ==
    { c @@ i @@ [utility |-> "none", quiet |-> q] :
          c \in ConfigArgs, i \in InputArgs, q \in BOOLEAN }
    \cup { c @@ i @@ [utility |-> u, quiet |-> FALSE] :
              c \in ConfigArgs, u \in {"test_components", "system_info"},
              i \in { [image |-> "img1.png", url |-> "None", batch |-> <<>>],
                      [image |-> "None", url |-> "None", batch |-> <<>>] } }

RunEnvs ==
    [initFails : BOOLEAN, testsPass : BOOLEAN, extracted : {"None", "raises", "img1"},
     fault : {"none", "preprocess"}]

InitCli ==
    /\ ConfigStart
    /\ ValidateIdle
    /\ engine \in SolverEngines
    /\ ocr = NewHandler
    /\ ocrRet = NoOcrCall
    /\ firstMulti = NoMulti
    /\ SolverIdle
    /\ ToolsIdle

NextCli == \E args \in RunArgs, env \in RunEnvs : Main(args, env)

SpecCli == InitCli /\ [][NextCli]_vars

(***************************************************************************)
(* correct_skew on images of either mode with every list of lines.         *)
(***************************************************************************)
InitSkew == InitConfig

NextSkew == \E mode \in {"RGB", "L"}, lines \in LineLists : CorrectSkew(mode, lines)

SpecSkew == InitSkew /\ [][NextSkew]_vars

(***************************************************************************)
(* The browser driver and the session under every behaviour of the browser *)
(* and every way of leaving the block.                                     *)
(***************************************************************************)
SelectorOutcomes == {"timeout", "absent", "image", "no image", "stale"}

BrowserEnvs ==
    { [chrome |-> FALSE, loads |-> FALSE, finds |-> [i \in 1..4 |-> "absent"]],
      [chrome |-> TRUE, loads |-> FALSE, finds |-> [i \in 1..4 |-> "absent"]] }
    \cup { [chrome |-> TRUE, loads |-> TRUE, finds |-> f] :
              f \in [1..Len(selenium_selectors) -> SelectorOutcomes] }

InitResources == InitConfig

NextResources ==
    \/ \E env \in BrowserEnvs : ExtractWithSelenium(env)
    \/ EnterWith
    \/ \E how \in {"normally", "exception"}, closeOk \in BOOLEAN : LeaveWith(how, closeOk)

SpecResources == InitResources /\ [][NextResources]_vars

(***************************************************************************)
(* What the claims speak of, read off a resolved mapping.                  *)
(***************************************************************************)
MissingSection(c) == \E s \in Sections : s \notin DOMAIN c

HasInt(c, s, key) ==
    /\ s \in DOMAIN c
    /\ c[s].isDict
    /\ key \in DOMAIN c[s].d
    /\ c[s].d[key].tag = "int"

ThresholdInRange(c) ==
    /\ HasInt(c, "ocr", "confidence_threshold")
    /\ c["ocr"].d["confidence_threshold"].n \in 0..100

ThresholdOutOfRange(c) ==
    /\ HasInt(c, "ocr", "confidence_threshold")
    /\ c["ocr"].d["confidence_threshold"].n \notin 0..100

NonPositive(c, s, key) == HasInt(c, s, key) /\ c[s].d[key].n <= 0

HasSteps(c) ==
    /\ "preprocessing" \in DOMAIN c
    /\ c["preprocessing"].isDict
    /\ "steps" \in DOMAIN c["preprocessing"].d
    /\ c["preprocessing"].d["steps"].tag = "list"

StepsOf(c) == c["preprocessing"].d["steps"].l

HasUnrecognizedStep(c) ==
    HasSteps(c) /\ \E i \in 1..Len(StepsOf(c)) : StepsOf(c)[i] \notin RecognizedSteps

\* validate_config has just run on a mapping that is still in the state.
Validated == cfgRet.op \in {"Config", "validate_config"} /\ cfgRet.inst \in Instances

(***************************************************************************)
(* C1: validate_config raises whenever a required section is absent or     *)
(* ocr.confidence_threshold is outside [0,100] (a ValueError naming the     *)
(* section in the first case, an exception in the second, which is the     *)
(* ValueError of the threshold when nothing before it raised), and it      *)
(* raises for neither of the two reasons otherwise.                        *)
(***************************************************************************)
C1_ValidateRejects ==
    valOut # Pending =>
        /\ MissingSection(valIn) => valOut = Raise("ValueError", "missing_section")
        /\ ThresholdOutOfRange(valIn) => valOut.exc # "none"
        /\ (ThresholdOutOfRange(valIn) /\ ~MissingSection(valIn)
              /\ ~NonPositive(valIn, "selenium", "timeout"))
             => valOut = Raise("ValueError", "confidence_threshold")
        /\ valOut.why = "missing_section" => MissingSection(valIn)
        /\ valOut.why = "confidence_threshold" => ThresholdOutOfRange(valIn)

C1_Witness ==
    /\ valOut = Raise("ValueError", "confidence_threshold")
    /\ ThresholdOutOfRange(valIn)
    /\ ~MissingSection(valIn)

(***************************************************************************)
(* C2: validate_config rejects the step list exactly when it holds a name  *)
(* outside {grayscale, denoise, threshold, morphology, skew_correction,    *)
(* enhance}; a list of names of that set, 'enhance' among them, is         *)
(* accepted.                                                               *)
(***************************************************************************)
C2_StepsRejectedIffUnrecognized ==
    (cfgRet.op = "validate_config" /\ HasSteps(Effective(cfgRet.inst))) =>
        /\ cfgRet.out.why = "invalid_step" => HasUnrecognizedStep(Effective(cfgRet.inst))
        /\ HasUnrecognizedStep(Effective(cfgRet.inst)) => cfgRet.out # Ok

(***************************************************************************)
(* C3: validate_config fails whenever a configured timeout is              *)
(* non-positive, selenium.timeout as well as extraction.timeout: a         *)
(* mapping it accepts has both positive.                                   *)
(***************************************************************************)
C3_NonPositiveTimeoutRejected ==
    (Validated /\ cfgRet.out = Ok) =>
        /\ ~NonPositive(Effective(cfgRet.inst), "selenium", "timeout")
        /\ ~NonPositive(Effective(cfgRet.inst), "extraction", "timeout")

(***************************************************************************)
(* C4: every Config instance, after any sequence of set, CLI overrides and *)
(* dict overlays, has all required sections and a confidence threshold in  *)
(* [0,100].                                                                *)
(***************************************************************************)
C4_ConfigInvariant ==
    \A i \in Instances :
        /\ ~MissingSection(Effective(i))
        /\ ThresholdInRange(Effective(i))

(***************************************************************************)
(* C5: a Config constructed without a file holds the documented defaults,  *)
(* whatever was done to the instances built before it.                     *)
(***************************************************************************)
C5_FreshConfigHoldsDefaults ==
    (cfgRet.op = "Config" /\ ~cfgRet.fileGiven) =>
        /\ cfgRet.out = Ok
        /\ Effective(cfgRet.inst) = [s \in Sections |-> DictE(DEFAULT_CONFIG[s])]

(***************************************************************************)
(* What recognize_text gives for an image under the i-th configuration of  *)
(* the fixed list, and the rows its confidence is computed from.           *)
(***************************************************************************)
PerConfig(image, i) == recognize_text(NewHandler, engine, image, configs_list[i])

ConfOf(image, i) == PerConfig(image, i).self.last_confidence

NonEmptyConfigs(image) ==
    { i \in 1..Len(configs_list) : StripsNonEmpty(PerConfig(image, i).text) }

\* The earliest configuration of highest confidence among those with a text.
BestConfig(image) ==
    CHOOSE i \in NonEmptyConfigs(image) :
        \A j \in NonEmptyConfigs(image) :
            \/ Greater(ConfOf(image, i), ConfOf(image, j))
            \/ ConfOf(image, i) = ConfOf(image, j) /\ i <= j

WordConfs(image, config) ==
    LET kept == SelectSeq(engine[image][config].tokens, LAMBDA t : StripsNonEmpty(t.text))
    IN [i \in 1..Len(kept) |-> kept[i].conf]

MeanNonNegative(confs) ==
    LET nonneg == SelectSeq(confs, LAMBDA c : c >= 0)
    IN IF nonneg = <<>> THEN Zero ELSE Rat(Sum(nonneg), Len(nonneg))

(***************************************************************************)
(* C6: recognize_with_multiple_configs returns the text and confidence of  *)
(* the configuration of highest confidence among those that give a         *)
(* non-empty text, the earliest on a tie, and returns the empty text only  *)
(* when no configuration gives a non-empty text, also when every non-empty *)
(* result has confidence 0.                                                *)
(***************************************************************************)
C6_BestOfNonEmpty ==
    ocrRet.op = "multi" =>
        IF NonEmptyConfigs(ocrRet.image) = {} THEN ocrRet.text = <<>>
        ELSE /\ ocrRet.text = PerConfig(ocrRet.image, BestConfig(ocrRet.image)).text
             /\ ocrRet.conf = ConfOf(ocrRet.image, BestConfig(ocrRet.image))

(***************************************************************************)
(* C7: after recognize_text the recorded confidence is the mean of the     *)
(* per-token confidences that are non-negative, zeros counted, and 0 when  *)
(* there is none.                                                          *)
(***************************************************************************)
C7_MeanOfNonNegative ==
    (ocrRet.op = "recognize_text" /\ ~engine[ocrRet.image][ocrRet.config].raises) =>
        ocr.last_confidence = MeanNonNegative(WordConfs(ocrRet.image, ocrRet.config))

(***************************************************************************)
(* C8: under an engine that is a function of (image, configuration), a     *)
(* recognize_with_multiple_configs call returns what the first such call   *)
(* on the same image returned, whatever recognizer operations ran before   *)
(* or between the two.                                                     *)
(***************************************************************************)
C8_MultiDeterministic ==
    (ocrRet.op = "multi" /\ ocrRet.repeat) =>
        /\ ocrRet.text = firstMulti.text
        /\ ocrRet.conf = firstMulti.conf

C8_Witness ==
    /\ ocrRet.op = "multi"
    /\ ocrRet.repeat
    /\ ocr.default_config = "--psm 13"
    /\ StripsNonEmpty(ocrRet.text)
    /\ Greater(ocrRet.conf, Zero)

(***************************************************************************)
(* C9: the orchestrator's validation accepts a result if and only if its   *)
(* text is non-empty once whitespace is stripped and its confidence is at  *)
(* least the configured ocr.confidence_threshold; a length outside [3,10]  *)
(* never rejects.                                                          *)
(***************************************************************************)
ConfiguredThreshold == solverCfg["ocr"].d["confidence_threshold"].n

C9_ValidationAccepts ==
    (solveRet.op = "_validate_result" /\ HasInt(solverCfg, "ocr", "confidence_threshold")) =>
        /\ ~solveRet.raised
        /\ solveRet.valid <=>
             /\ StripsNonEmpty(solveRet.text)
             /\ ~Less(solveRet.conf, Rat(ConfiguredThreshold, 1))

C9_Witness ==
    /\ solveRet.op = "_validate_result"
    /\ HasInt(solverCfg, "ocr", "confidence_threshold")
    /\ solveRet.valid
    /\ Len(solveRet.text) > 10
    /\ solveRet.conf = Rat(ConfiguredThreshold, 1)

(***************************************************************************)
(* C10: solve_from_file, solve_from_url and solve_from_element never raise *)
(* to the caller, and return the empty string when a stage fails.          *)
(***************************************************************************)
SolveOps == {"solve_from_file", "solve_from_url", "solve_from_element"}

C10_SolveNeverRaises ==
    solveRet.op \in SolveOps =>
        /\ ~solveRet.raised
        /\ solveRet.failed # "none" => solveRet.text = <<>>

C10_Witness ==
    /\ solveRet.op = "solve_from_file"
    /\ solveRet.source = "missing.png"
    /\ solveRet.failed = "input"
    /\ solveRet.text = <<>>
    /\ history # <<>>

(***************************************************************************)
(* C11: a solve_from_file call in which preprocessing and recognition      *)
(* complete appends exactly one record, whose source is the input path and *)
(* whose result and confidence are the returned text and its confidence;   *)
(* a call that fails before recognition completes appends none.            *)
(***************************************************************************)
RecognitionCompleted == solveRet.failed \in {"none", "validate"}

LastRecord == history[Len(history)]

C11_OneRecordPerSolve ==
    solveRet.op = "solve_from_file" =>
        IF RecognitionCompleted
        THEN /\ solveRet.appended = 1
             /\ Path_str(LastRecord.source) = Path_str(solveRet.source)
             /\ LastRecord.result = solveRet.text
             /\ LastRecord.confidence = solver.last_confidence
        ELSE solveRet.appended = 0

(***************************************************************************)
(* C12: after any sequence of solve operations the history holds at most   *)
(* 100 records, and they are the most recent min(n, 100) recorded          *)
(* attempts, in the order they were recorded.                              *)
(***************************************************************************)
Min(a, b) == IF a < b THEN a ELSE b

C12_HistoryKeepsLast100 ==
    /\ Len(history) = Min(clock, 100)
    /\ \A i \in 1..Len(history) : history[i].timestamp = clock - Len(history) + i

C12_Witness ==
    /\ clock = 102
    /\ Len(history) = 100
    /\ history[1].timestamp = 3
    /\ history[100].timestamp = 102

(***************************************************************************)
(* C13: solve_batch never raises and returns one entry per input path, in  *)
(* input order, each entry's path its input, whether or not the paths      *)
(* exist or are readable images; a failure on one input does not stop the  *)
(* processing of the inputs after it.                                      *)
(***************************************************************************)
Readable(path) == validate_image_path(path) = Ok /\ Image_open(path).out = Ok

C13_BatchOneEntryPerInput ==
    batchRet.called =>
        /\ ~batchRet.raised
        /\ Len(batchRet.results) = Len(batchRet.image_paths)
        /\ \A i \in 1..Len(batchRet.image_paths) :
              /\ batchRet.results[i].path = batchRet.image_paths[i]
              /\ Readable(batchRet.image_paths[i]) =>
                     batchRet.results[i].failed \in {"none", "validate", "preprocess"}
        /\ batchRet.appended =
              Cardinality({ i \in 1..Len(batchRet.results) :
                              batchRet.results[i].failed \in {"none", "validate"} })

C13_Witness ==
    /\ batchRet.called
    /\ batchRet.image_paths = <<"missing.png", "img1.png">>
    /\ batchRet.results[1].failed = "input"
    /\ batchRet.results[2].success
    /\ batchRet.appended = 1

(***************************************************************************)
(* C14: in the list solve_batch returns, the entry of an input whose solve *)
(* failed is marked failed (success false) and has its error field set.    *)
(***************************************************************************)
C14_FailedEntryHasError ==
    batchRet.called =>
        \A i \in 1..Len(batchRet.results) :
            batchRet.results[i].failed # "none" =>
                /\ ~batchRet.results[i].success
                /\ batchRet.results[i].error

(***************************************************************************)
(* C15: preprocess applies the configured steps in list order, each        *)
(* recognized step once per occurrence to the output of the step before;   *)
(* a step name that is not recognized is skipped without raising and       *)
(* without changing the image, and the steps after it are still applied.   *)
(***************************************************************************)
Recognized(steps) == SelectSeq(steps, LAMBDA st : st \in RecognizedSteps)

\* The image that the first n steps of a list make of an image, step by step.
RECURSIVE Chain(_, _, _)
Chain(image, steps, n) ==
    IF n = 0 THEN Done(image)
    ELSE LET before == Chain(image, steps, n - 1)
         IN IF before.out # Ok THEN before ELSE ApplyStep(steps[n], before.image)

NoStepRaises(image, steps) == Chain(image, steps, Len(steps)).out = Ok

C15_StepsInOrder ==
    (prep.called /\ NoStepRaises(prep.image, Recognized(prep.steps))) =>
        /\ prep.out = Ok
        /\ prep.calls = Recognized(prep.steps)
        /\ prep.result = Chain(prep.image, Recognized(prep.steps),
                               Len(Recognized(prep.steps))).image

C15_Witness ==
    /\ prep.called
    /\ prep.steps = <<"grayscale", "sharpen", "threshold">>
    /\ prep.out = Ok
    /\ prep.result.ops = <<"grayscale", "threshold">>

(***************************************************************************)
(* C16: when a preprocessing step raises, preprocess applies no later step *)
(* and hands the failure to its caller, returning no partly processed      *)
(* image.                                                                  *)
(***************************************************************************)
\* The place in a list of the first step that raises, 0 if none does.
FirstRaising(image, steps) ==
    IF NoStepRaises(image, steps) THEN 0
    ELSE CHOOSE n \in 1..Len(steps) :
            /\ Chain(image, steps, n).out # Ok
            /\ Chain(image, steps, n - 1).out = Ok

C16_FailureAborts ==
    (prep.called /\ ~NoStepRaises(prep.image, Recognized(prep.steps))) =>
        /\ prep.out # Ok
        /\ prep.result = Img("none", FALSE, <<>>)
        /\ prep.calls = SubSeq(Recognized(prep.steps), 1,
                               FirstRaising(prep.image, Recognized(prep.steps)))

C16_Witness ==
    /\ prep.called
    /\ prep.image = Img("RGB", FALSE, <<>>)
    /\ prep.steps = <<"skew_correction", "threshold", "grayscale">>
    /\ prep.out = Raise("cv2.error", "adaptiveThreshold")
    /\ prep.calls = <<"skew_correction", "threshold">>

(***************************************************************************)
(* C17: extract_from_element tries screenshot, src download and            *)
(* background-image download in that order, returns the image of the first *)
(* method that succeeds and attempts none after it; when all three fail it *)
(* returns None; it never raises.                                          *)
(***************************************************************************)
Methods == <<"screenshot", "src", "background">>

\* What the n-th method gives for the element of the last call.
MethodGives(n) ==
    IF n = 1 THEN TryScreenshot(ext.element)
    ELSE IF n = 2 THEN TrySrc(ext.element, ext.driver)
    ELSE TryBackground(ext.element, ext.driver)

Succeeding == { n \in 1..3 : MethodGives(n) # "None" }

C17_FirstMethodWins ==
    ext.called =>
        /\ ~ext.raised
        /\ IF Succeeding = {}
           THEN ext.image = "None" /\ ext.attempts = Methods
           ELSE LET first == CHOOSE n \in Succeeding : \A k \in Succeeding : n <= k
                IN /\ ext.image = MethodGives(first)
                   /\ ext.attempts = SubSeq(Methods, 1, first)

C17_Witness ==
    /\ ext.called
    /\ ext.element = Element("garbage", "a.png", "background-image: url(b.png)")
    /\ ext.driver = "live"
    /\ ext.image = "image of a.png"
    /\ ext.attempts = <<"screenshot", "src">>

(***************************************************************************)
(* C18: submit_captcha returns False, without raising and without          *)
(* submitting the form, when the form is not found or when no CAPTCHA      *)
(* input field matches, neither the given input selector nor any of the    *)
(* heuristic selectors.                                                    *)
(***************************************************************************)
NoInputMatches ==
    /\ sub.input_selector # "None" => sub.page.given = "missing"
    /\ \A i \in 1..Len(captcha_selectors) : sub.page.finds[i] = "absent"

C18_NoFormOrInputFails ==
    (sub.called /\ (~sub.page.form \/ NoInputMatches)) =>
        /\ ~sub.result
        /\ ~sub.raised
        /\ ~sub.submitted

C18_Witness ==
    /\ sub.called
    /\ sub.page.form
    /\ sub.page.button = "clicks"
    /\ sub.input_selector = "None"
    /\ NoInputMatches
    /\ ~sub.result

(***************************************************************************)
(* C19: wait_for_result always terminates and returns one status out of    *)
(* success, error, redirect and timeout; within one poll a visible success *)
(* indicator wins over a visible error indicator, which wins over a URL    *)
(* change since submission; it returns timeout only when no poll inside    *)
(* the timeout window saw a visible indicator or a URL change.             *)
(***************************************************************************)
VisibleIn(finds) == \E i \in 1..Len(finds) : finds[i] = "visible"

UrlChanged == wait.has_initial_url /\ wait.snapshot.url # wait.initial_url

WaitStatusRight ==
    wait.pc = "done" =>
        /\ wait.status \in {"success", "error", "redirect", "timeout"}
        /\ wait.status = "timeout" => ~wait.observed
        /\ (wait.status # "timeout" /\ ~wait.exception) =>
              /\ VisibleIn(wait.snapshot.success) => wait.status = "success"
              /\ (~VisibleIn(wait.snapshot.success) /\ VisibleIn(wait.snapshot.error)) =>
                     wait.status = "error"
              /\ (~VisibleIn(wait.snapshot.success) /\ ~VisibleIn(wait.snapshot.error)) =>
                     (wait.status = "redirect" /\ UrlChanged)

C19_WaitReturnsOneStatus ==
    /\ []WaitStatusRight
    /\ (wait.pc = "polling") ~> (wait.pc = "done")

C19_Witness ==
    /\ wait.pc = "done"
    /\ wait.status = "success"
    /\ wait.elapsed > 0
    /\ VisibleIn(wait.snapshot.error)
    /\ UrlChanged

(***************************************************************************)
(* C20: retry_operation calls the function at most max_attempts times and  *)
(* stops at the first call that succeeds, returning its result; after the  *)
(* k-th failed attempt (from 0) that is not the last it waits              *)
(* delay * 2^k, with no wait after the last; when every attempt fails with *)
(* a listed exception it raises the last one; an exception that is not     *)
(* listed propagates at once, with no further attempt.                     *)
(***************************************************************************)
Calls == Len(retry.calls)

\* The failed attempts that a wait follows: all but the max_attempts-th.
WaitedAfter ==
    { k \in 0..(Calls - 1) : retry.calls[k + 1] = "listed" /\ k < retry.max_attempts - 1 }

C20_RetryBacksOff ==
    /\ Calls <= retry.max_attempts
    /\ \A k \in 1..(Calls - 1) : retry.calls[k] = "listed"
    /\ Len(retry.waits) = Cardinality(WaitedAfter)
    /\ \A k \in WaitedAfter : retry.waits[k + 1] = retry.delay * (2 ^ k)
    /\ (retry.pc = "done" /\ Calls > 0) =>
          /\ retry.calls[Calls] = "ok" =>
                 retry.result = <<"value", Calls - 1>> /\ retry.raised = Nothing
          /\ retry.calls[Calls] = "unlisted" => retry.raised = <<"unlisted", Calls - 1>>
          /\ retry.calls[Calls] = "listed" =>
                 /\ Calls = retry.max_attempts
                 /\ retry.raised = <<"listed", Calls - 1>>

C20_Witness ==
    /\ retry.pc = "done"
    /\ retry.max_attempts = 4
    /\ retry.delay = 3
    /\ retry.calls = <<"listed", "listed", "listed", "listed">>
    /\ retry.waits = <<3, 6, 12>>
    /\ retry.raised = <<"listed", 3>>

(***************************************************************************)
(* C21: a run of the command on a single input (--image or --url) ends     *)
(* with exit code 0 when the solve gave a result, a text that is not empty *)
(* once stripped, and with a non-zero code when it gave none: the          *)
(* configuration could not be loaded, the solver could not be built, or    *)
(* the solve returned the empty text.                                      *)
(***************************************************************************)
SingleInputRun ==
    /\ cli.ran
    /\ cli.args.utility = "none"
    /\ ~Falsy(cli.args.image) \/ ~Falsy(cli.args.url)

FreshSolver == [solver |-> NewSolver, ocr |-> NewHandler, history |-> <<>>]

\* The text the run's solve call returns, empty when the run never gets to it.
TextOfRun ==
    CHOOSE text \in
        { IF c.out # Ok \/ cli.env.initFails THEN <<>>
          ELSE IF ~Falsy(cli.args.image)
          THEN solve_from_file(FreshSolver, Resolve(c.top, c.defs), engine, 1,
                               cli.args.image, cli.env.fault).text
          ELSE solve_from_url(FreshSolver, Resolve(c.top, c.defs), engine, 1,
                              cli.args.url, cli.env.extracted, cli.env.fault).text :
          c \in {load_config_from_args(DEFAULT_CONFIG, cli.args)} } : TRUE

BatchRun ==
    /\ cli.ran
    /\ cli.args.utility = "none"
    /\ Falsy(cli.args.image) /\ Falsy(cli.args.url)
    /\ cli.args.batch # <<>>
    /\ load_config_from_args(DEFAULT_CONFIG, cli.args).out = Ok
    /\ ~cli.env.initFails

C22_BatchAlwaysExitsZero ==
    BatchRun =>
        /\ cli.end.code = 0
        /\ Len(cli.end.entries) = Len(Expanded(cli.args.batch))
        /\ cli.end.summary \/ cli.args.quiet

(***************************************************************************)
(* C23: correct_skew returns the input image unchanged when no line is     *)
(* detected or the absolute median of the detected line angles is at most  *)
(* 1 degree, and otherwise returns the image rotated by exactly the median *)
(* angle, an angle above 90 degrees counting as angle - 180.               *)
(***************************************************************************)
\* Twice the median of the rotation angles, read off the sorted list.
MedianOfLines2 ==
    LET angles == Sorted([i \in 1..Len(prep.lines) |->
                             IF prep.lines[i] > 90 THEN prep.lines[i] - 180
                             ELSE prep.lines[i]])
        n == Len(angles)
    IN IF n = 0 THEN 0
       ELSE IF n % 2 = 1 THEN 2 * angles[(n + 1) \div 2]
       ELSE angles[n \div 2] + angles[n \div 2 + 1]

C23_SkewRotatesByMedian ==
    (prep.called /\ prep.calls = <<"skew_correction">> /\ prep.steps = <<>>) =>
        /\ prep.out = Ok
        /\ IF prep.lines = <<>> \/ Abs(MedianOfLines2) <= 2
           THEN prep.result = prep.image
           ELSE prep.result # prep.image /\ prep.rotated2 = MedianOfLines2

(***************************************************************************)
(* C24: for every dotted key, set(key, value) followed by get(key,         *)
(* default) returns value; and get of a key path that does not exist, a    *)
(* key that is missing or a path through a value that is no mapping,       *)
(* returns the given default without raising.                              *)
(***************************************************************************)
PathExists(c, path) ==
    /\ path[1] \in DOMAIN c
    /\ Len(path) = 2 => (c[path[1]].isDict /\ path[2] \in DOMAIN c[path[1]].d)

C24_SetGetRoundTrip ==
    /\ cfgRet.op = "set" =>
          /\ cfgRet.out = Ok
          /\ Config_get(Effective(cfgRet.inst), cfgRet.in.path, ScalarE(NoneV))
                 = ScalarE(cfgRet.in.value)
    /\ (cfgRet.op = "get" /\ ~PathExists(Effective(cfgRet.inst), cfgRet.in.path)) =>
          /\ cfgRet.out = Ok
          /\ cfgRet.in.got = cfgRet.in.default

(***************************************************************************)
(* C25: the grayscale step is idempotent: applying convert_to_grayscale    *)
(* twice to an image gives the same image as applying it once, for the     *)
(* images a pipeline is given and for those it returns, and a pipeline     *)
(* with the step twice returns what the step returns once.                 *)
(***************************************************************************)
GrayTwiceIsOnce(image) ==
    LET once == convert_to_grayscale(image) IN
    /\ once.out = Ok
    /\ convert_to_grayscale(once.image) = once

C25_GrayscaleIdempotent ==
    prep.called =>
        /\ GrayTwiceIsOnce(prep.image)
        /\ prep.out = Ok => GrayTwiceIsOnce(prep.result)
        /\ prep.steps = <<"grayscale", "grayscale">> =>
               /\ prep.out = Ok
               /\ prep.result = convert_to_grayscale(prep.image).image

C25_Witness ==
    /\ prep.called
    /\ prep.image.mode = "RGB"
    /\ prep.steps = <<"grayscale", "grayscale">>
    /\ prep.calls = <<"grayscale", "grayscale">>
    /\ prep.result = Img("L", prep.image.skewed, <<"grayscale">>)

(***************************************************************************)
(* C26: submit_captcha returns True only if the captcha text was set in    *)
(* the input field and the form was actually submitted, by a click on a    *)
(* submit control that succeeded or by the direct form submission; when    *)
(* filling the input fails or every click method on the chosen submit      *)
(* control fails, it returns False.                                        *)
(***************************************************************************)
ReachedInput ==
    /\ sub.page.form
    /\ IF sub.input_selector # "None" THEN sub.page.given = "found"
       ELSE FindCaptchaInput(sub.page.finds, 1) > 0

C26_TrueOnlyIfFilledAndSubmitted ==
    sub.called =>
        /\ sub.result => (sub.filled /\ sub.submitted)
        /\ (ReachedInput /\ ~sub.page.fills) => ~sub.result
        /\ (ReachedInput /\ sub.page.button = "unclickable") => ~sub.result

(***************************************************************************)
(* C27: after every solve call get_last_result() and get_confidence()      *)
(* describe that call: the text it returned and the confidence of its      *)
(* recognition, the empty text and 0 when it failed.                       *)
(***************************************************************************)
C27_LastResultIsOfLastCall ==
    solveRet.op \in SolveOps =>
        /\ solver.last_result = solveRet.text
        /\ IF solveRet.failed = "none"
           THEN solveRet.appended = 1 /\ solver.last_confidence = LastRecord.confidence
           ELSE solver.last_confidence = Zero

(***************************************************************************)
(* C28: in the configuration load_config_from_args builds,                 *)
(* ocr.confidence_threshold is the value of --confidence-threshold when    *)
(* the flag is given, for any value in [0,100], 0 too, and otherwise the   *)
(* value of the configuration file or, where the file has none or there is *)
(* no file, the default; stated of the first configuration of a process.   *)
(***************************************************************************)
FileThreshold(file) ==
    IF file.given /\ "ocr" \in DOMAIN file.content
       /\ file.content["ocr"].isDict
       /\ "confidence_threshold" \in DOMAIN file.content["ocr"].d
    THEN file.content["ocr"].d["confidence_threshold"]
    ELSE DEFAULT_CONFIG["ocr"]["confidence_threshold"]

C28_ThresholdFlagWins ==
    (/\ cfgRet.op = "load_config_from_args"
     /\ cfgRet.out = Ok
     /\ Len(configs) = 1
     /\ cfgRet.in.threshold_flag => cfgRet.in.confidence_threshold.n \in 0..100) =>
        Effective(cfgRet.inst)["ocr"].d["confidence_threshold"]
            = IF cfgRet.in.threshold_flag THEN cfgRet.in.confidence_threshold
              ELSE FileThreshold(cfgRet.in.config)

(***************************************************************************)
(* C29: a CAPTCHASolver constructed from a dict overlay holds, for every   *)
(* key the overlay gives, the overlay's value and, for every key it does   *)
(* not give, the default, also within a section the overlay gives only in  *)
(* part; and the configuration it holds passes validate_config, as one     *)
(* loaded from a file does.  Stated of the first configuration of a        *)
(* process.                                                                *)
(***************************************************************************)
OverlayGives(overlay, s, k) ==
    s \in DOMAIN overlay /\ overlay[s].isDict /\ k \in DOMAIN overlay[s].d

C29_OverlayKeepsDefaults ==
    (cfgRet.op = "CAPTCHASolver" /\ cfgRet.out = Ok /\ Len(configs) = 1) =>
        /\ \A s \in Sections : \A k \in DOMAIN DEFAULT_CONFIG[s] :
              /\ s \in DOMAIN Effective(cfgRet.inst)
              /\ Effective(cfgRet.inst)[s].isDict
              /\ k \in DOMAIN Effective(cfgRet.inst)[s].d
              /\ Effective(cfgRet.inst)[s].d[k]
                     = IF OverlayGives(cfgRet.in, s, k) THEN cfgRet.in[s].d[k]
                       ELSE DEFAULT_CONFIG[s][k]
        /\ validate_config(Effective(cfgRet.inst)) = Ok

(***************************************************************************)
(* C30: resources are released on every exit path: extract_with_selenium   *)
(* quits the browser driver it created whether it returns an image,        *)
(* returns None or an exception occurs inside it, and no exception leaves  *)
(* it; leaving a 'with CAPTCHASolver' block, normally or by exception,     *)
(* calls the close of the extractor's session, which is closed when that   *)
(* close returns, and cleanup itself never raises.                         *)
(***************************************************************************)
ExceptionInside ==
    resources.env.chrome /\ (~resources.env.loads \/ SelectorLoop(resources.env.finds, 1) = "raises")

C30_ResourcesReleased ==
    /\ resources.op = "extract_with_selenium" =>
          /\ resources.quit = resources.created
          /\ resources.created = (IF resources.env.chrome THEN 1 ELSE 0)
          /\ ~resources.raised
          /\ ExceptionInside => resources.result = "None"
    /\ resources.op = "__exit__" =>
          /\ resources.closeCalled
          /\ ~resources.raised
          /\ resources.closeOk => resources.session = "closed"

C30_Witness ==
    /\ resources.op = "extract_with_selenium"
    /\ resources.env.chrome /\ resources.env.loads
    /\ resources.env.finds[1] = "timeout"
    /\ resources.env.finds[2] = "stale"
    /\ resources.created = 1
    /\ resources.quit = 1
    /\ resources.result = "None"
    /\ resources.session = "open"

====
